---- MODULE Spec2Model ----
(***************************************************************************)
(* A model of scripts/visualize-org.py, the generator of the interactive   *)
(* org chart: the frontmatter parser, the text heuristics, the discovery   *)
(* of a plugin directory (build_from_plugin) and the data the renderer     *)
(* (generate_html) embeds in the page.                                     *)
(*                                                                         *)
(* Python strings are sequences of one-character strings, so that lower(), *)
(* title(), split(), strip(), slicing and the regular expressions of the   *)
(* source act on characters as they do in the program.                     *)
(***************************************************************************)
EXTENDS Integers, Sequences, FiniteSets, TLC

VARIABLES
    \* shorten_description / fix_name_casing called on a text
    text_in, max_len, short1, short2, cased, tpc,
    \* parse_frontmatter: its argument, its locals and its position
    content, meta, body, raw_lines, line_no, current_key, current_list, fpc,
    \* generate_html: its argument, the data it builds and its position
    config, color_map, lifecycle_steps, sprint_alt, agent_data, vp_cards, team_data,
    detail_data, payload, rpc,
    \* build_from_plugin: the directory it reads, its locals and its position
    plugin_dir, org_name, claude_content, agents, skills, skill_bodies, mcps, cli_tools,
    lifecycle, teams, alternate_paths, utility_skills, ppc,
    \* main: its arguments, its locals, the output path and its position
    args, main_config, html_content, output_file, mpc

textVars == <<text_in, max_len, short1, short2, cased, tpc>>
fmVars == <<content, meta, body, raw_lines, line_no, current_key, current_list, fpc>>

renderVars == <<config, color_map, lifecycle_steps, sprint_alt, agent_data, vp_cards,
                team_data, detail_data, payload, rpc>>

pluginVars == <<plugin_dir, org_name, claude_content, agents, skills, skill_bodies, mcps,
                cli_tools, lifecycle, teams, alternate_paths, utility_skills, ppc>>

mainVars == <<args, main_config, html_content, output_file, mpc>>

vars == <<textVars, fmVars, renderVars, pluginVars, mainVars>>

\* what each part of the program leaves alone
nonTextVars == <<fmVars, renderVars, pluginVars, mainVars>>
nonFmVars == <<textVars, renderVars, pluginVars, mainVars>>
nonRenderVars == <<textVars, fmVars, pluginVars, mainVars>>
nonPluginVars == <<textVars, fmVars, renderVars, mainVars>>
nonMainVars == <<textVars, fmVars, renderVars, pluginVars>>

(***************************************************************************)
(* Characters and the str methods the source uses                          *)
(***************************************************************************)
UpperChars == <<"A","B","C","D","E","F","G","H","I","J","K","L","M",
                "N","O","P","Q","R","S","T","U","V","W","X","Y","Z">>
LowerChars == <<"a","b","c","d","e","f","g","h","i","j","k","l","m",
                "n","o","p","q","r","s","t","u","v","w","x","y","z">>
DigitChars == {"0","1","2","3","4","5","6","7","8","9"}

IsUpper(c) == \E i \in 1..26 : UpperChars[i] = c
IsLower(c) == \E i \in 1..26 : LowerChars[i] = c
IsLetter(c) == IsUpper(c) \/ IsLower(c)
\* \w of the re module
IsWordChar(c) == IsLetter(c) \/ c \in DigitChars \/ c = "_"
SpaceChars == {" ", "\n", "\t", "\r"}
\* \s of the re module, and the characters str.split() and str.strip() drop
IsSpace(c) == c \in SpaceChars

lower_char(c) ==
    IF IsUpper(c) THEN LowerChars[CHOOSE i \in 1..26 : UpperChars[i] = c] ELSE c
upper_char(c) ==
    IF IsLower(c) THEN UpperChars[CHOOSE i \in 1..26 : LowerChars[i] = c] ELSE c

SetMin(S) == CHOOSE x \in S : \A y \in S : x <= y
SetMax(S) == 0 - SetMin({0 - x : x \in S})
\* the k-th smallest element of a set of integers
Nth(S, k) == CHOOSE x \in S : Cardinality({y \in S : y < x}) = k - 1

\* the slice s[a-1:b] of Python: the characters at positions a..b (counted from 1)
\* that s has
substr(s, a, b) ==
    LET lo == IF a < 1 THEN 1 ELSE a
        hi == IF b > Len(s) THEN Len(s) ELSE b
    IN  IF lo > hi THEN <<>> ELSE SubSeq(s, lo, hi)

\* str.lower()
lower(s) == [i \in 1..Len(s) |-> lower_char(s[i])]

\* str.title(): a letter that follows a letter is lowered, any other letter raised
title(s) ==
    [i \in 1..Len(s) |->
        IF IsLetter(s[i])
        THEN IF i > 1 /\ IsLetter(s[i-1]) THEN lower_char(s[i]) ELSE upper_char(s[i])
        ELSE s[i]]

\* str.strip()
strip(s) ==
    LET n == Len(s)
        \* the whitespace characters at the front, and those at the back
        front == CHOOSE k \in 0..n :
                    /\ k = n \/ ~IsSpace(s[k + 1])
                    /\ \A m \in 1..k : IsSpace(s[m])
        back  == CHOOSE k \in 0..n :
                    /\ k = n \/ ~IsSpace(s[n - k])
                    /\ \A m \in 0..(k - 1) : IsSpace(s[n - m])
    IN  IF front = n THEN <<>> ELSE substr(s, front + 1, n - back)

\* str.split(): the maximal runs of non-whitespace characters
split_ws(s) ==
    LET n == Len(s)
        starts == {i \in 1..n : ~IsSpace(s[i]) /\ (i = 1 \/ IsSpace(s[i-1]))}
        ends   == {i \in 1..n : ~IsSpace(s[i]) /\ (i = n \/ IsSpace(s[i+1]))}
    IN  [k \in 1..Cardinality(starts) |-> substr(s, Nth(starts, k), Nth(ends, k))]

\* str.split(c) for a one-character separator: empty parts are kept
split_char(s, c) ==
    LET n == Len(s)
        cuts == {i \in 1..n : s[i] = c}
        m == Cardinality(cuts)
        from(k) == IF k = 1 THEN 1 ELSE Nth(cuts, k - 1) + 1
        to(k) == IF k = m + 1 THEN n ELSE Nth(cuts, k) - 1
    IN  [k \in 1..(m + 1) |-> substr(s, from(k), to(k))]

\* str.replace(c, t) for a one-character c
RECURSIVE replace_char(_, _, _)
replace_char(s, c, t) ==
    IF s = <<>> THEN <<>>
    ELSE (IF Head(s) = c THEN t ELSE <<Head(s)>>) \o replace_char(Tail(s), c, t)

\* sep.join(parts)
RECURSIVE join(_, _)
join(parts, sep) ==
    IF Len(parts) = 0 THEN <<>>
    ELSE IF Len(parts) = 1 THEN parts[1]
    ELSE parts[1] \o sep \o join(Tail(parts), sep)

\* the positions at which sub occurs in s
Occurrences(sub, s) ==
    {i \in 1..(Len(s) - Len(sub) + 1) : substr(s, i, i + Len(sub) - 1) = sub}

\* sub in s
contains(s, sub) == Occurrences(sub, s) # {}

\* s.startswith(p)
startswith(s, p) == Len(s) >= Len(p) /\ substr(s, 1, Len(p)) = p

\* s[:k], a negative k counting from the end
slice_to(s, k) ==
    IF k >= 0 THEN substr(s, 1, IF k < Len(s) THEN k ELSE Len(s))
    ELSE substr(s, 1, IF Len(s) + k > 0 THEN Len(s) + k ELSE 0)

\* the end of the longest run of characters of the set S that starts at position i
\* of s (i - 1 when s[i] is not in S)
RunIn(s, i, S) ==
    IF i > Len(s) THEN Len(s)
    ELSE (CHOOSE j \in i..(Len(s) + 1) :
            /\ j = Len(s) + 1 \/ s[j] \notin S
            /\ \A k \in i..(j - 1) : s[k] \in S) - 1

\* the same for the characters outside S
RunNotIn(s, i, S) ==
    IF i > Len(s) THEN Len(s)
    ELSE (CHOOSE j \in i..(Len(s) + 1) :
            /\ j = Len(s) + 1 \/ s[j] \in S
            /\ \A k \in i..(j - 1) : s[k] \notin S) - 1

\* the value of a Python name that holds None or is not bound yet
None == <<"None">>

(***************************************************************************)
(* fix_name_casing                                                         *)
(***************************************************************************)
\* the abbreviations table: <<lower-case key, canonical form>>
abbreviations ==
    << << <<"q","a">>, <<"Q","A">> >>,
       << <<"u","i">>, <<"U","I">> >>,
       << <<"u","x">>, <<"U","X">> >>,
       << <<"u","i","/","u","x">>, <<"U","I","/","U","X">> >>,
       << <<"a","p","i">>, <<"A","P","I">> >>,
       << <<"c","i">>, <<"C","I">> >>,
       << <<"c","d">>, <<"C","D">> >>,
       << <<"p","r">>, <<"P","R">> >>,
       << <<"p","r","d">>, <<"P","R","D">> >>,
       << <<"c","t","o">>, <<"C","T","O">> >>,
       << <<"c","e","o">>, <<"C","E","O">> >>,
       << <<"d","e","v","o","p","s">>, <<"D","e","v","O","p","s">> >>,
       << <<"b","i","z","o","p","s">>, <<"B","i","z","O","p","s">> >>,
       << <<"g","i","t","h","u","b">>, <<"G","i","t","H","u","b">> >>,
       << <<"d","e","v","t","o","o","l","s">>, <<"D","e","v","T","o","o","l","s">> >> >>

\* key in abbreviations
in_abbreviations(key) == \E i \in 1..Len(abbreviations) : abbreviations[i][1] = key
\* abbreviations[key]
abbreviation_of(key) ==
    abbreviations[CHOOSE i \in 1..Len(abbreviations) : abbreviations[i][1] = key][2]

\* one pass of the loop over words: a known abbreviation is replaced, any other
\* word is appended as received
fix_word(w) == IF in_abbreviations(lower(w)) THEN abbreviation_of(lower(w)) ELSE w

\* fix_name_casing without its loop over the words
fix_name_casing_whole_only(name) ==
    IF in_abbreviations(lower(name)) THEN abbreviation_of(lower(name)) ELSE name

fix_name_casing(name) ==
    IF in_abbreviations(lower(name)) THEN abbreviation_of(lower(name))
    ELSE LET words == split_ws(name)
         IN  join([k \in 1..Len(words) |-> fix_word(words[k])], <<" ">>)

(***************************************************************************)
(* shorten_description                                                     *)
(***************************************************************************)
\* re.split(r',\s*(?:and\s+)?', text): a separator is a comma, the whitespace after
\* it and, when it follows at once, the word "and" with the whitespace after it
RECURSIVE split_comma_and(_)
split_comma_and(text) ==
    LET commas == {i \in 1..Len(text) : text[i] = ","}
    IN  IF commas = {} THEN <<text>>
        ELSE LET c == SetMin(commas)
                 ws == RunIn(text, c + 1, SpaceChars)
                 hasAnd == /\ substr(text, ws + 1, ws + 3) = <<"a","n","d">>
                           /\ ws + 4 <= Len(text)
                           /\ IsSpace(text[ws + 4])
                 sepEnd == IF hasAnd THEN RunIn(text, ws + 4, SpaceChars) ELSE ws
             IN  <<substr(text, 1, c - 1)>>
                    \o split_comma_and(substr(text, sepEnd + 1, Len(text)))

\* the label built from a matched list "X, Y, and Z": the first item title-cased,
\* " & ", and the second item as it stands; one item alone is title-cased
two_item_label(listText) ==
    LET raw == split_comma_and(listText)
        parts == [k \in 1..Len(raw) |-> strip(raw[k])]
    IN  IF Len(parts) >= 2
        THEN fix_name_casing(title(parts[1]) \o <<" ","&"," ">> \o parts[2])
        ELSE fix_name_casing(title(parts[1]))

\* re.search(lit + r'([^.]+)', desc): the starts of the literal that are followed by
\* at least one character other than a full stop
LitThenText(litr, desc) ==
    {i \in Occurrences(litr, desc) :
        i + Len(litr) <= Len(desc) /\ desc[i + Len(litr)] # "."}

\* group(1) of that search for the match starting at i
GroupAfter(litr, desc, i) ==
    substr(desc, i + Len(litr), RunNotIn(desc, i + Len(litr), {"."}))

SpecializingIn == <<"s","p","e","c","i","a","l","i","z","i","n","g"," ","i","n"," ">>
ForLit == <<"f","o","r"," ">>
CoveringLit == <<"c","o","v","e","r","i","n","g"," ">>

\* re.search(r'specializing in ([^.]+)', desc) is not None
spec_match(desc) == LitThenText(SpecializingIn, desc) # {}
spec_group(desc) ==
    GroupAfter(SpecializingIn, desc, SetMin(LitThenText(SpecializingIn, desc)))

\* re.search(r'(?:for|covering) ([^.]+)', desc): the leftmost start of either word
for_starts(desc) == LitThenText(ForLit, desc) \cup LitThenText(CoveringLit, desc)
for_match(desc) == for_starts(desc) # {}
for_group(desc) ==
    LET i == SetMin(for_starts(desc))
    IN  IF i \in LitThenText(ForLit, desc) THEN GroupAfter(ForLit, desc, i)
        ELSE GroupAfter(CoveringLit, desc, i)

\* re.match(r'^(?:a|an|the)\s', target, re.IGNORECASE)
starts_with_article(target) ==
    LET t == lower(target)
    IN  \E art \in {<<"a">>, <<"a","n">>, <<"t","h","e">>} :
            /\ startswith(t, art)
            /\ Len(t) > Len(art)
            /\ IsSpace(t[Len(art) + 1])

\* truncate_fallback cutting to max_len characters before the ellipsis is added
truncate_fallback_no_room(desc, maxlen) ==
    LET first == split_char(desc, ".")[1]
        clause == split_char(first, ",")[1]
    IN  IF Len(clause) <= maxlen THEN fix_name_casing(clause)
        ELSE IF Len(first) <= maxlen THEN fix_name_casing(first)
        ELSE fix_name_casing(slice_to(first, maxlen) \o <<".",".",".">>)

\* the last three returns: the first clause, the first sentence, or the first
\* sentence cut to max_len - 3 characters with an ellipsis
truncate_fallback(desc, maxlen) ==
    LET first == split_char(desc, ".")[1]
        clause == split_char(first, ",")[1]
    IN  IF Len(clause) <= maxlen THEN fix_name_casing(clause)
        ELSE IF Len(first) <= maxlen THEN fix_name_casing(first)
        ELSE fix_name_casing(slice_to(first, maxlen - 3) \o <<".",".",".">>)

\* the early return taken only below the budget
fits_strictly(desc, maxlen) == Len(desc) = 0 \/ Len(desc) < maxlen

\* "if not desc or len(desc) <= max_len: return desc"
fits(desc, maxlen) == Len(desc) = 0 \/ Len(desc) <= maxlen

shorten_description(desc, maxlen) ==
    IF fits(desc, maxlen) THEN desc
    ELSE IF spec_match(desc) THEN two_item_label(spec_group(desc))
    ELSE IF for_match(desc) /\ ~starts_with_article(strip(for_group(desc)))
         THEN two_item_label(strip(for_group(desc)))
    ELSE truncate_fallback(desc, maxlen)

(***************************************************************************)
(* parse_frontmatter                                                       *)
(***************************************************************************)
Dashes == <<"-","-","-">>

\* the positions of a "\n" that ends a run of whitespace starting at position i:
\* where r'\s*\n' can end when it starts at i
DelimiterEnds(text, i) ==
    {p \in i..Len(text) : text[p] = "\n" /\ \A j \in i..(p - 1) : IsSpace(text[j])}

\* where r'\n---\s*\n' can start after position p
ClosingStarts(text, p) ==
    {q \in (p + 1)..Len(text) :
        /\ substr(text, q, q + 3) = <<"\n">> \o Dashes
        /\ DelimiterEnds(text, q + 4) # {}}

\* the ends p of the opening r'^---\s*\n' after which a closing delimiter is found
OpeningEnds(text) ==
    IF startswith(text, Dashes)
    THEN {p \in DelimiterEnds(text, 4) : ClosingStarts(text, p) # {}}
    ELSE {}

\* re.match(r'^---\s*\n(.*?)\n---\s*\n(.*)$', content, re.DOTALL) is not None
header_match(text) == OpeningEnds(text) # {}

\* the match the engine returns: the greedy \s* of the opening takes the longest run
\* that leaves a match, the lazy (.*?) the shortest, the closing \s* the longest
header_groups(text) ==
    LET p == SetMax(OpeningEnds(text))
        q == SetMin(ClosingStarts(text, p))
        r == SetMax(DelimiterEnds(text, q + 4))
    IN  [raw_meta |-> substr(text, p + 1, q - 1),
         body |-> substr(text, r + 1, Len(text))]

\* re.match(r'^\s+-\s+(.+)$', line): indentation, a hyphen, whitespace and at least
\* one more character (the last whitespace character when nothing follows)
list_match(line) ==
    LET a == RunIn(line, 1, SpaceChars)
        b == RunIn(line, a + 2, SpaceChars)
    IN  /\ a >= 1
        /\ a + 1 <= Len(line)
        /\ line[a + 1] = "-"
        /\ b >= a + 2
        /\ (b < Len(line) \/ b >= a + 3)

\* list_match.group(1)
list_item(line) ==
    LET a == RunIn(line, 1, SpaceChars)
        b == RunIn(line, a + 2, SpaceChars)
    IN  IF b < Len(line) THEN substr(line, b + 1, Len(line))
        ELSE substr(line, Len(line), Len(line))

\* str.split(c, 1)
split_once(s, c) ==
    LET at == {i \in 1..Len(s) : s[i] = c}
    IN  IF at = {} THEN <<s>>
        ELSE <<substr(s, 1, SetMin(at) - 1), substr(s, SetMin(at) + 1, Len(s))>>

\* str.strip(q) for a one-character q
strip_char(s, q) ==
    LET keep == {i \in 1..Len(s) : s[i] # q}
    IN  IF keep = {} THEN <<>> ELSE substr(s, SetMin(keep), SetMax(keep))

\* current_list: None, or the list in progress
NoList == [none |-> TRUE, items |-> <<>>]
SomeList(items) == [none |-> FALSE, items |-> items]

\* the values of the mapping: a scalar string or a list of strings
StrVal(v) == [kind |-> "str", v |-> v]
ListVal(items) == [kind |-> "list", v |-> items]

\* re.match(r'^\[(.+)\]$', val)
inline_match(val) == Len(val) >= 3 /\ val[1] = "[" /\ val[Len(val)] = "]"

\* the items of an inline list, stripped of whitespace and of quote characters
inline_items(val) ==
    LET raw == split_char(substr(val, 2, Len(val) - 1), ",")
    IN  [k \in 1..Len(raw) |-> strip_char(strip_char(strip(raw[k]), "\""), "'")]

\* the value stored for a non-empty val
meta_value(val) ==
    IF inline_match(val) THEN ListVal(inline_items(val)) ELSE StrVal(val)

\* meta[key] = value
dict_set(d, key, value) ==
    [k \in (DOMAIN d) \cup {key} |-> IF k = key THEN value ELSE d[k]]

\* the empty dict
EmptyDict == <<>>

\* "if current_key": neither None nor the empty string
is_set(key) == key # None /\ key # <<>>

\* the test of a key line without its "':' in line"
is_unindented_line(line) == ~startswith(line, <<" ">>)

\* "':' in line and not line.startswith(' ')"
is_key_line(line) == contains(line, <<":">>) /\ ~startswith(line, <<" ">>)

\* "if current_list is not None and current_key: meta[current_key] = current_list"
flush_list(st) ==
    IF ~st.current_list.none /\ is_set(st.current_key)
    THEN [st EXCEPT !.meta = dict_set(@, st.current_key, ListVal(st.current_list.items)),
                    !.current_list = NoList]
    ELSE st

\* "key, val = line.split(':', 1)" and what follows; unpacking anything but two
\* parts raises ValueError
key_value(st, line) ==
    LET parts == split_once(line, ":")
    IN  IF Len(parts) # 2 THEN [st EXCEPT !.raised = TRUE]
        ELSE LET key == strip(parts[1])
                 val == strip(parts[2])
             IN  [st EXCEPT !.current_key = key,
                            !.meta = IF val # <<>> THEN dict_set(@, key, meta_value(val))
                                     ELSE @]

\* one iteration of "for line in raw_meta.split('\n')" on the loop's state
\* [meta, current_key, current_list, raised]
fm_step(st, line) ==
    IF list_match(line) /\ is_set(st.current_key)
    THEN [st EXCEPT !.current_list = SomeList(@.items \o <<strip(list_item(line))>>)]
    ELSE IF is_key_line(line) THEN key_value(flush_list(st), line)
    ELSE flush_list(st)

\* the loop's state before the first line
fm_start == [meta |-> EmptyDict, current_key |-> None, current_list |-> NoList,
             raised |-> FALSE]

RECURSIVE fm_loop(_, _)
fm_loop(st, lines) ==
    IF Len(lines) = 0 \/ st.raised THEN st
    ELSE fm_loop(fm_step(st, Head(lines)), Tail(lines))

\* parse_frontmatter(content): [meta, body, raised]
parse_frontmatter(text) ==
    IF header_match(text)
    THEN LET g == header_groups(text)
             st == flush_list(fm_loop(fm_start, split_char(g.raw_meta, "\n")))
         IN  [meta |-> st.meta, body |-> g.body, raised |-> st.raised]
    ELSE [meta |-> EmptyDict, body |-> text, raised |-> FALSE]

\* meta.get(key, default) for a scalar default
dict_get(d, key, default) == IF key \in DOMAIN d THEN d[key] ELSE StrVal(default)

(***************************************************************************)
(* The renderer's tables and helpers                                       *)
(***************************************************************************)
\* the characters of the model in the order of their code points
AsciiChars ==
    <<"\t", "\n", "\r", " ", "!", "\"", "#", "&", "'", "(", ")", "*", "+", ",", "-",
      ".", "/", "0", "1", "2", "3", "4", "5", "6", "7", "8", "9", ":", "<", ">", "@",
      "A", "B", "C", "D", "E", "F", "G", "H", "I", "J", "K", "L", "M", "N", "O", "P",
      "Q", "R", "S", "T", "U", "V", "W", "X", "Y", "Z", "[", "\\", "]", "_",
      "a", "b", "c", "d", "e", "f", "g", "h", "i", "j", "k", "l", "m", "n", "o", "p",
      "q", "r", "s", "t", "u", "v", "w", "x", "y", "z", "U+2014", "U+2192">>

\* the rank of a character in that order
ord(c) == CHOOSE i \in 1..Len(AsciiChars) : AsciiChars[i] = c

\* a < b for two strings: the first difference decides, a proper prefix is smaller
str_less(a, b) ==
    \E k \in 1..(Len(b)) :
        /\ substr(a, 1, k - 1) = substr(b, 1, k - 1)
        /\ Len(a) >= k - 1
        /\ (Len(a) = k - 1 \/ ord(a[k]) < ord(b[k]))

AGENT_COLORS ==
    <<"#3b82f6", "#ec4899", "#f59e0b", "#10b981", "#06b6d4", "#8b5cf6",
      "#f97316", "#14b8a6", "#a855f7", "#ef4444">>

\* the phase labels
PHASE_DEFS ==
    << [label |-> <<"D","i","s","c","o","v","e","r","y">>, color |-> "#06b6d4"],
       [label |-> <<"P","l","a","n","n","i","n","g">>, color |-> "#ec4899"],
       [label |-> <<"E","x","e","c","u","t","i","o","n">>, color |-> "#3b82f6"],
       [label |-> <<"L","a","u","n","c","h">>, color |-> "#10b981"] >>

PREFERRED_AGENT_ORDER ==
    << <<"e","n","g","i","n","e","e","r">>, <<"d","e","s","i","g","n","e","r">>, <<"b","i","z","o","p","s">>, <<"q","a">>, <<"r","e","s","e","a","r","c","h","e","r">>, <<"c","o","n","t","e","n","t"," ","s","t","r","a","t","e","g","i","s","t">> >>

PREFERRED_VP_ORDER ==
    << <<"s","p","r","i","n","t">>, <<"o","b","s","e","r","v","e","r">>, <<"s","t","o","r","y">>, <<"s","c","a","f","f","o","l","d">>, <<"s","t","a","n","d","u","p">>, <<"h","e","l","p">> >>

\* a key that knows no preferred place
order_key_unranked(names_list, item) == <<Len(names_list), item>>

\* _order_key(names_list)(item): the item's place in the list, or the list's length,
\* and the item itself
order_key(names_list, item) ==
    LET at == {i \in 1..Len(names_list) : names_list[i] = item}
    IN  <<IF at = {} THEN Len(names_list) ELSE SetMin(at) - 1, item>>

\* the order of two such keys as Python compares tuples
key_less(k1, k2) == k1[1] < k2[1] \/ (k1[1] = k2[1] /\ str_less(k1[2], k2[2]))

\* list.sort on <<key, item>> pairs: stable, an item goes after the items whose key
\* is not greater
RECURSIVE sort_pairs(_)
sort_pairs(ps) ==
    IF Len(ps) <= 1 THEN ps
    ELSE LET rest == sort_pairs(SubSeq(ps, 1, Len(ps) - 1))
             x == ps[Len(ps)]
             k == Cardinality({i \in 1..Len(rest) : ~key_less(x[1], rest[i][1])})
         IN  SubSeq(rest, 1, k) \o <<x>> \o SubSeq(rest, k + 1, Len(rest))

\* item in list
in_list(item, list) == \E i \in 1..Len(list) : list[i] = item

\* list.append(item) guarded by "if item not in list"
append_new(list, item) == IF in_list(item, list) THEN list ELSE Append(list, item)

\* d.get(key, default)
get_or(d, key, default) == IF key \in DOMAIN d THEN d[key] ELSE default

(***************************************************************************)
(* assign_agent_colors                                                     *)
(***************************************************************************)
\* the well-known colors: <<lower-case name, color>>
known ==
    << << <<"e","n","g","i","n","e","e","r">>, "#3b82f6" >>,
       << <<"d","e","s","i","g","n","e","r">>, "#ec4899" >>,
       << <<"b","i","z","o","p","s">>, "#f59e0b" >>,
       << <<"q","a">>, "#10b981" >>,
       << <<"r","e","s","e","a","r","c","h","e","r">>, "#06b6d4" >>,
       << <<"c","o","n","t","e","n","t"," ","s","t","r","a","t","e","g","i","s","t">>, "#8b5cf6" >>,
       << <<"c","o","n","t","e","n","t">>, "#8b5cf6" >> >>

is_known(name_lower) == \E i \in 1..Len(known) : known[i][1] = name_lower
known_color(name_lower) == known[CHOOSE i \in 1..Len(known) : known[i][1] = name_lower][2]

\* the first loop: the agents with a well-known name take its color
RECURSIVE known_pass(_, _)
known_pass(agents_, cm) ==
    IF Len(agents_) = 0 THEN cm
    ELSE known_pass(Tail(agents_),
            IF is_known(lower(Head(agents_).name))
            THEN dict_set(cm, Head(agents_).name, known_color(lower(Head(agents_).name)))
            ELSE cm)

\* the colors a color map uses
colors_of(cm) == {cm[n] : n \in DOMAIN cm}

\* the while loop left out: palette_idx stays where it is
skip_used_never(palette_idx, used) == palette_idx

\* the while loop: palette_idx moves past the palette colors already used
skip_used(palette_idx, used) ==
    LET free == {j \in palette_idx..(Len(AGENT_COLORS) - 1) : AGENT_COLORS[j + 1] \notin used}
    IN  IF free = {} THEN IF palette_idx > Len(AGENT_COLORS) THEN palette_idx
                          ELSE Len(AGENT_COLORS)
        ELSE SetMin(free)

\* the second loop: every other agent takes the next palette color, the palette
\* index wrapping around
RECURSIVE palette_pass(_, _, _)
palette_pass(agents_, cm, palette_idx) ==
    IF Len(agents_) = 0 THEN cm
    ELSE IF Head(agents_).name \in DOMAIN cm
         THEN palette_pass(Tail(agents_), cm, palette_idx)
    ELSE LET idx == skip_used(palette_idx, colors_of(cm))
             color == AGENT_COLORS[(idx % Len(AGENT_COLORS)) + 1]
         IN  palette_pass(Tail(agents_), dict_set(cm, Head(agents_).name, color), idx + 1)

assign_agent_colors(agents_) == palette_pass(agents_, known_pass(agents_, EmptyDict), 0)

(***************************************************************************)
(* build_lifecycle_data                                                    *)
(***************************************************************************)
\* name.lower().replace(" ", "-")
agent_id(name) == replace_char(lower(name), " ", <<"-">>)

\* a dict built by a loop or a comprehension keeps the last item of a key: the
\* last item of the list whose name is the given one
has_named(items, name) == \E i \in 1..Len(items) : items[i].name = name
last_named(items, name) == items[SetMax({i \in 1..Len(items) : items[i].name = name})]

\* item.get(key, default)
field(item, key, default) == IF key \in DOMAIN item THEN item[key] ELSE default

\* skill_desc.get(skill_name, "")
skill_desc(skills_, skill_name) ==
    IF has_named(skills_, skill_name)
    THEN field(last_named(skills_, skill_name), "description", <<>>)
    ELSE <<>>

\* agent_skills_map without the look at the agent's skills: every agent's name
agent_skills_map_all(agents_, sk) == [k \in 1..Len(agents_) |-> agents_[k].name]

\* agent_skills_map.get(sk, []): the names of the agents that list the skill, in the
\* order of the agents, each once
RECURSIVE agent_skills_map(_, _)
agent_skills_map(agents_, sk) ==
    IF Len(agents_) = 0 THEN <<>>
    ELSE LET before == agent_skills_map(SubSeq(agents_, 1, Len(agents_) - 1), sk)
             agent == agents_[Len(agents_)]
         IN  IF in_list(sk, field(agent, "skills", <<>>))
             THEN append_new(before, agent.name)
             ELSE before

\* int(i / per_phase) with per_phase = n / 4: the quotient of the two floats is i * 4 / n
\* the steps spread over two phases instead of four
phase_of_step_halved(i, n) == (2 * i) \div n
phase_of_step_whole(i, n) == i \div (n \div 4)
phase_of_step(i, n) == (4 * i) \div n

\* phase_assignment for a lifecycle of n steps (index i of Python is i + 1 here)
phase_assignment(n) ==
    IF n = 8 THEN <<0, 0, 1, 1, 2, 2, 3, 3>>
    ELSE IF n <= 4 THEN [i \in 1..n |-> i - 1]
    ELSE [i \in 1..n |-> IF phase_of_step(i - 1, n) > 3 THEN 3 ELSE phase_of_step(i - 1, n)]

\* the agent_roles of a step
agent_roles(agents_, skill_name, cmap) ==
    LET involved_agents == agent_skills_map(agents_, skill_name)
    IN  [k \in 1..Len(involved_agents) |->
            [id |-> agent_id(involved_agents[k]),
             name |-> involved_agents[k],
             color |-> get_or(cmap, involved_agents[k], "#94a3b8"),
             role |-> field(last_named(agents_, involved_agents[k]), "description", <<>>)]]

\* the steps build_lifecycle_data returns
lifecycle_steps_of(lifecycle_, agents_, skills_, cmap) ==
    [i \in 1..Len(lifecycle_) |->
        [skill |-> lifecycle_[i],
         desc |-> skill_desc(skills_, lifecycle_[i]),
         phase |-> phase_assignment(Len(lifecycle_))[i],
         agents |-> agent_roles(agents_, lifecycle_[i], cmap)]]

\* sprint_alt: None, or an alternate path
NoPath == [none |-> TRUE]
SomePath(ap) == [none |-> FALSE, path |-> ap]

\* the first alternate path named "sprint", or None
sprint_alt_of(alternate_paths_) ==
    LET at == {i \in 1..Len(alternate_paths_) : alternate_paths_[i].name = <<"s","p","r","i","n","t">>}
    IN  IF at = {} THEN NoPath ELSE SomePath(alternate_paths_[SetMin(at)])

(***************************************************************************)
(* generate_html: the data it embeds in the page                           *)
(***************************************************************************)
\* x or y for two strings
or_else(x, y) == IF x # <<>> /\ x # None THEN x ELSE y

Inherit == <<"i","n","h","e","r","i","t">>
Orchestrator == <<"o","r","c","h","e","s","t","r","a","t","o","r">>

\* tools: the mcps, then every CLI tool followed by the given suffix
tools_of(agent, suffix) ==
    field(agent, "mcps", <<>>) \o
    [k \in 1..Len(field(agent, "cli_tools", <<>>)) |-> agent.cli_tools[k] \o suffix]

\* one entry of agent_data
agent_entry(agent, cmap) ==
    [id |-> agent_id(agent.name),
     name |-> agent.name,
     color |-> get_or(cmap, agent.name, "#94a3b8"),
     model |-> or_else(field(agent, "model", None), Inherit),
     desc |-> field(agent, "description", <<>>),
     tools |-> tools_of(agent, <<" ","C","L","I">>),
     skills |-> field(agent, "skills", <<>>),
     knowledge_skills |-> field(agent, "knowledge_skills", <<>>),
     mcps |-> field(agent, "mcps", <<>>),
     cli_tools |-> field(agent, "cli_tools", <<>>),
     detail_description |->
        or_else(field(agent, "detail_description", <<>>), field(agent, "description", <<>>))]

\* agent_data in the order of the agents
agent_entries(agents_, cmap) ==
    [k \in 1..Len(agents_) |-> agent_entry(agents_[k], cmap)]

\* agent_data.sort(key = agent_key(a["id"].replace("-", " ")))
sort_agent_data(entries) ==
    LET sorted == sort_pairs([k \in 1..Len(entries) |->
                    <<order_key(PREFERRED_AGENT_ORDER,
                                replace_char(entries[k].id, "-", <<" ">>)), entries[k]>>])
    IN  [k \in 1..Len(sorted) |-> sorted[k][2]]

\* agent_data as generate_html embeds it, and the same without the sort
agent_data_unsorted(agents_, cmap) == agent_entries(agents_, cmap)
agent_data_of(agents_, cmap) == sort_agent_data(agent_entries(agents_, cmap))

\* the icons are single symbols outside ASCII, named here by their code points
VP_ICONS ==
    << << <<"s","p","r","i","n","t">>, <<"U+26A1">> >>,
       << <<"o","b","s","e","r","v","e","r">>, <<"U+1F9E0">> >>,
       << <<"s","t","o","r","y">>, <<"U+1F4D6">> >>,
       << <<"s","c","a","f","f","o","l","d">>, <<"U+1F3D7", "U+FE0F">> >>,
       << <<"s","t","a","n","d","u","p">>, <<"U+1F4CB">> >>,
       << <<"h","e","l","p">>, <<"U+2753">> >>,
       << <<"k","i","c","k","o","f","f">>, <<"U+1F91D">> >> >>

VP_DEFAULTS ==
    << << <<"s","p","r","i","n","t">>, <<"E","x","e","c","u","t","e"," ","a"," ","b","a","t","c","h"," ","o","f"," ","t","i","c","k","e","t","s"," ","i","n"," ","p","a","r","a","l","l","e","l"," ","U+2014"," ","o","n","e"," ","E","n","g","i","n","e","e","r"," ","p","e","r"," ","t","i","c","k","e","t",","," ","t","h","e","n"," ","Q","A"," ","a","n","d"," ","D","e","s","i","g","n","e","r"," ","r","e","v","i","e","w"," ","s","i","m","u","l","t","a","n","e","o","u","s","l","y",".">> >>,
       << <<"s","t","o","r","y">>, <<"T","u","r","n"," ","y","o","u","r"," ","d","e","c","i","s","i","o","n"," ","l","o","g"," ","i","n","t","o"," ","a"," ","p","u","b","l","i","s","h","a","b","l","e"," ","n","a","r","r","a","t","i","v","e"," ","U+2014"," ","t","u","t","o","r","i","a","l",","," ","c","a","s","e"," ","s","t","u","d","y",","," ","b","l","o","g"," ","p","o","s","t",","," ","o","r"," ","l","a","u","n","c","h"," ","s","t","o","r","y",".">> >>,
       << <<"s","c","a","f","f","o","l","d">>, <<"D","e","s","i","g","n"," ","a","n","d"," ","b","u","i","l","d"," ","y","o","u","r"," ","o","w","n"," ","c","u","s","t","o","m"," ","A","I"," ","o","r","g"," ","U+2014"," ","d","e","f","i","n","e"," ","y","o","u","r"," ","o","w","n"," ","a","g","e","n","t","s",","," ","s","k","i","l","l","s",","," ","a","n","d"," ","w","o","r","k","f","l","o","w","s"," ","f","r","o","m"," ","s","c","r","a","t","c","h",".">> >>,
       << <<"s","t","a","n","d","u","p">>, <<"G","e","n","e","r","a","t","e"," ","a"," ","d","a","i","l","y"," ","s","u","m","m","a","r","y"," ","f","r","o","m"," ","g","i","t"," ","h","i","s","t","o","r","y",","," ","o","b","s","e","r","v","e","r"," ","l","o","g",","," ","a","n","d"," ","p","r","o","j","e","c","t"," ","a","r","t","i","f","a","c","t","s",".">> >>,
       << <<"h","e","l","p">>, <<"G","e","t"," ","o","r","i","e","n","t","e","d"," ","U+2014"," ","s","e","e"," ","y","o","u","r"," ","t","e","a","m",","," ","c","h","e","c","k"," ","p","r","o","j","e","c","t"," ","s","t","a","t","u","s",","," ","a","n","d"," ","f","i","n","d"," ","w","h","a","t"," ","t","o"," ","d","o"," ","n","e","x","t",".">> >>,
       << <<"k","i","c","k","o","f","f">>, <<"C","o","l","l","a","b","o","r","a","t","i","v","e"," ","a","g","e","n","t"," ","t","e","a","m"," ","m","e","e","t","i","n","g","s"," ","U+2014"," ","p","r","e","-","c","o","n","f","i","g","u","r","e","d"," ","o","r"," ","a","d","-","h","o","c",".">> >> >>

\* table.get(key, default) for a table of <<key, value>> pairs
table_get(table, key, default) ==
    LET at == {i \in 1..Len(table) : table[i][1] = key}
    IN  IF at = {} THEN default ELSE table[SetMin(at)][2]

\* the card that is always there
observer_card ==
    [icon |-> table_get(VP_ICONS, <<"o","b","s","e","r","v","e","r">>, <<"U+1F9E0">>),
     skill |-> <<"o","b","s","e","r","v","e","r">>,
     name |-> <<"D","e","c","i","s","i","o","n"," ","m","e","m","o","r","y">>,
     desc |-> <<"E","v","e","r","y"," ","c","h","o","i","c","e"," ","y","o","u"," ","m","a","k","e"," ","i","s"," ","l","o","g","g","e","d"," ","w","i","t","h"," ","y","o","u","r"," ","r","e","a","s","o","n","i","n","g","."," ","N","o","t"," ","w","h","a","t"," ","c","h","a","n","g","e","d"," ","(","g","i","t"," ","h","a","n","d","l","e","s"," ","t","h","a","t",")"," ","U+2014"," ","b","u","t"," ","W","H","Y"," ","y","o","u"," ","c","h","o","s","e"," ","i","t",".">>,
     agents |-> <<Orchestrator>>]

\* a card that names the orchestrator whatever its agents are
vp_card_orchestrator(sk_name, desc, agent_ids) ==
    [icon |-> table_get(VP_ICONS, sk_name, <<"U+2699", "U+FE0F">>),
     skill |-> sk_name,
     name |-> <<"/">> \o sk_name,
     desc |-> desc,
     agents |-> <<Orchestrator>>]

\* the card of a utility skill or an alternate path
vp_card(sk_name, desc, agent_ids) ==
    [icon |-> table_get(VP_ICONS, sk_name, <<"U+2699", "U+FE0F">>),
     skill |-> sk_name,
     name |-> <<"/">> \o sk_name,
     desc |-> desc,
     agents |-> agent_ids]

\* the cards of the utility skills, kickoff left out
RECURSIVE utility_cards(_)
utility_cards(utility_skills_) ==
    IF Len(utility_skills_) = 0 THEN <<>>
    ELSE LET us == Head(utility_skills_)
             names == field(us, "agents", <<>>)
             agent_ids == [k \in 1..Len(names) |-> agent_id(names[k])]
         IN  (IF us.name = <<"k","i","c","k","o","f","f">> THEN <<>>
              ELSE <<vp_card(us.name,
                        or_else(field(us, "description", <<>>), table_get(VP_DEFAULTS, us.name, <<>>)),
                        IF Len(agent_ids) = 0 THEN <<Orchestrator>> ELSE agent_ids)>>)
             \o utility_cards(Tail(utility_skills_))

\* the cards of the alternate paths, sprint and kickoff left out
RECURSIVE alternate_cards(_)
alternate_cards(alternate_paths_) ==
    IF Len(alternate_paths_) = 0 THEN <<>>
    ELSE LET ap == Head(alternate_paths_)
         IN  (IF ap.name = <<"s","p","r","i","n","t">> \/ ap.name = <<"k","i","c","k","o","f","f">> THEN <<>>
              ELSE <<vp_card(ap.name,
                        or_else(field(ap, "description", <<>>), table_get(VP_DEFAULTS, ap.name, <<>>)),
                        <<Orchestrator>>)>>)
             \o alternate_cards(Tail(alternate_paths_))

\* a card for each of story, scaffold and help that is a skill and has no card yet
RECURSIVE well_known_cards(_, _, _)
well_known_cards(names, skills_, cards) ==
    IF Len(names) = 0 THEN cards
    ELSE LET sk_name == Head(names)
             at == {i \in 1..Len(skills_) : skills_[i].name = sk_name}
         IN  well_known_cards(Tail(names), skills_,
                IF at # {} /\ ~\E k \in 1..Len(cards) : cards[k].skill = sk_name
                THEN Append(cards, vp_card(sk_name,
                                field(skills_[SetMin(at)], "description", <<>>),
                                <<Orchestrator>>))
                ELSE cards)

\* vp_cards.sort(key = vp_key(v["skill"]))
sort_vp_cards(cards) ==
    LET sorted == sort_pairs([k \in 1..Len(cards) |->
                    <<order_key(PREFERRED_VP_ORDER, cards[k].skill), cards[k]>>])
    IN  [k \in 1..Len(sorted) |-> sorted[k][2]]

\* vp_cards as generate_html embeds them
vp_cards_of(utility_skills_, alternate_paths_, skills_) ==
    sort_vp_cards(
        IF Len(utility_skills_) > 0
        THEN <<observer_card>> \o utility_cards(utility_skills_)
        ELSE well_known_cards(<< <<"s","t","o","r","y">>, <<"s","c","a","f","f","o","l","d">>, <<"h","e","l","p">> >>, skills_,
                              <<observer_card>> \o alternate_cards(alternate_paths_)))

\* team_data
team_data_of(teams_, cmap) ==
    [t \in 1..Len(teams_) |->
        [name |-> teams_[t].name,
         purpose |-> field(teams_[t], "description", <<>>),
         members |-> [k \in 1..Len(field(teams_[t], "members", <<>>)) |->
                        [id |-> agent_id(teams_[t].members[k]),
                         name |-> teams_[t].members[k],
                         color |-> get_or(cmap, teams_[t].members[k], "#94a3b8")]]]]

\* str(i) for a natural number
DigitSeq == <<"0", "1", "2", "3", "4", "5", "6", "7", "8", "9">>

RECURSIVE int_str(_)
int_str(i) ==
    IF i < 10 THEN <<DigitSeq[i + 1]>>
    ELSE int_str(i \div 10) \o <<DigitSeq[(i % 10) + 1]>>

\* the detail entry of an agent
agent_detail(agent, cmap) ==
    [type |-> <<"a","g","e","n","t">>,
     name |-> agent.name,
     model |-> or_else(field(agent, "model", None), Inherit),
     desc |-> or_else(field(agent, "detail_description", <<>>), field(agent, "description", <<>>)),
     tools |-> tools_of(agent, <<" ","(","C","L","I",")">>),
     skills |-> field(agent, "skills", <<>>),
     color |-> get_or(cmap, agent.name, "#94a3b8")]

\* the names of the agents that list the skill
RECURSIVE used_by(_, _)
used_by(agents_, sk_name) ==
    IF Len(agents_) = 0 THEN <<>>
    ELSE (IF in_list(sk_name, field(Head(agents_), "skills", <<>>))
          THEN <<Head(agents_).name>> ELSE <<>>) \o used_by(Tail(agents_), sk_name)

\* the label of the phase of the first step of the skill, "" when it is no step
phase_name(steps, sk_name) ==
    LET at == {i \in 1..Len(steps) : steps[i].skill = sk_name}
    IN  IF at = {} THEN <<>>
        ELSE IF steps[SetMin(at)].phase < Len(PHASE_DEFS)
             THEN PHASE_DEFS[steps[SetMin(at)].phase + 1].label
             ELSE <<>>

\* the detail entry of a skill
skill_detail(sk, agents_, steps) ==
    [type |-> <<"s","k","i","l","l">>,
     name |-> <<"/">> \o sk.name,
     desc |-> or_else(field(sk, "detail_description", <<>>), field(sk, "description", <<>>)),
     usedBy |-> used_by(agents_, sk.name),
     phase |-> phase_name(steps, sk.name)]

\* the detail entry of a team
team_detail(tm) ==
    [type |-> <<"t","e","a","m">>,
     name |-> tm.name,
     members |-> field(tm, "members", <<>>),
     desc |-> field(tm, "description", <<>>)]

\* the three loops that fill detail_data, a later entry replacing one of the same key
RECURSIVE detail_agents(_, _, _)
detail_agents(agents_, cmap, d) ==
    IF Len(agents_) = 0 THEN d
    ELSE detail_agents(Tail(agents_), cmap,
            dict_set(d, <<"a","g","e","n","t","-">> \o agent_id(Head(agents_).name),
                     agent_detail(Head(agents_), cmap)))

RECURSIVE detail_skills(_, _, _, _)
detail_skills(skills_, agents_, steps, d) ==
    IF Len(skills_) = 0 THEN d
    ELSE detail_skills(Tail(skills_), agents_, steps,
            dict_set(d, <<"s","k","i","l","l","-">> \o Head(skills_).name,
                     skill_detail(Head(skills_), agents_, steps)))

RECURSIVE detail_teams(_, _, _)
detail_teams(teams_, i, d) ==
    IF i >= Len(teams_) THEN d
    ELSE detail_teams(teams_, i + 1,
            dict_set(d, <<"t","e","a","m","-">> \o int_str(i), team_detail(teams_[i + 1])))

detail_data_of(agents_, skills_, teams_, steps, cmap) ==
    detail_teams(teams_, 0,
        detail_skills(skills_, agents_, steps,
            detail_agents(agents_, cmap, EmptyDict)))

(***************************************************************************)
(* safe_json, and the reading of the payload by the page's script          *)
(***************************************************************************)
\* json.dumps of one character of a string (ensure_ascii = False)
json_char(c) ==
    IF c = "\"" THEN <<"\\", "\"">>
    ELSE IF c = "\\" THEN <<"\\", "\\">>
    ELSE IF c = "\n" THEN <<"\\", "n">>
    ELSE IF c = "\r" THEN <<"\\", "r">>
    ELSE IF c = "\t" THEN <<"\\", "t">>
    ELSE <<c>>

\* the concatenation of a list of strings
RECURSIVE concat(_)
concat(parts) ==
    IF Len(parts) = 0 THEN <<>>
    ELSE IF Len(parts) = 1 THEN parts[1]
    ELSE concat(SubSeq(parts, 1, Len(parts) \div 2)) \o
         concat(SubSeq(parts, (Len(parts) \div 2) + 1, Len(parts)))

\* the text json.dumps writes between the quotes of a string
json_string(s) == concat([i \in 1..Len(s) |-> json_char(s[i])])

\* the text left as json.dumps wrote it
script_unchanged(t) == t
\* .replace('</', r'<\/'): a backslash goes between every < and the / that follows it
script_safe(t) ==
    concat([i \in 1..Len(t) |->
                IF t[i] = "<" /\ i < Len(t) /\ t[i + 1] = "/" THEN <<"<", "\\">> ELSE <<t[i]>>])

\* safe_json of a string, and the same without the escapes of json.dumps
safe_json_raw(s) == script_safe(s)
safe_json(s) == IF s = None THEN None ELSE script_safe(json_string(s))

\* safe_json of a list of strings
safe_json_list(l) == [k \in 1..Len(l) |-> safe_json(l[k])]

\* safe_json of a dict: the fields S are strings, the fields L lists of strings, the
\* other fields are numbers, colors or nested data written by their own rule
safe_json_dict(r, S, L) ==
    [f \in DOMAIN r |-> IF f \in S THEN safe_json(r[f])
                        ELSE IF f \in L THEN safe_json_list(r[f])
                        ELSE r[f]]

\* the value of an escape sequence in a string literal of the script
js_escape_value(c) ==
    IF c = "n" THEN "\n" ELSE IF c = "r" THEN "\r" ELSE IF c = "t" THEN "\t" ELSE c

\* the backslashes of a string literal that start an escape sequence: those after an
\* even number of backslashes, the last character excepted
escape_starts(t) ==
    {i \in 1..(Len(t) - 1) :
        /\ t[i] = "\\"
        /\ (i - 1 - SetMax({0} \cup {j \in 1..(i - 1) : t[j] # "\\"})) % 2 = 0}

\* the string a string literal of the script denotes
js_string(t) ==
    IF t = None THEN None
    ELSE LET starts == escape_starts(t)
         IN  concat([i \in 1..Len(t) |->
                        IF i \in starts THEN <<>>
                        ELSE IF (i - 1) \in starts THEN <<js_escape_value(t[i])>>
                        ELSE <<t[i]>>])

js_list(l) == [k \in 1..Len(l) |-> js_string(l[k])]

js_dict(r, S, L) ==
    [f \in DOMAIN r |-> IF f \in S THEN js_string(r[f])
                        ELSE IF f \in L THEN js_list(r[f])
                        ELSE r[f]]

\* the eight pieces of data of the page, as safe_json writes them
StepStrings == {"skill", "desc"}
RoleStrings == {"id", "name", "role"}
AgentStrings == {"id", "name", "model", "desc", "detail_description"}
AgentLists == {"tools", "skills", "knowledge_skills", "mcps", "cli_tools"}
CardStrings == {"icon", "skill", "name", "desc"}
TeamStrings == {"name", "purpose"}
MemberStrings == {"id", "name"}
DetailStrings == {"type", "name", "model", "desc", "phase"}
DetailLists == {"tools", "skills", "usedBy", "members"}
PathStrings == {"name", "description", "type"}
PathLists == {"replaces"}

agents_json(agent_data_) ==
    [k \in 1..Len(agent_data_) |-> safe_json_dict(agent_data_[k], AgentStrings, AgentLists)]

lifecycle_json(steps) ==
    [k \in 1..Len(steps) |->
        [safe_json_dict(steps[k], StepStrings, {}) EXCEPT
            !.agents = [j \in 1..Len(steps[k].agents) |->
                            safe_json_dict(steps[k].agents[j], RoleStrings, {})]]]

phases_json == [k \in 1..Len(PHASE_DEFS) |-> safe_json_dict(PHASE_DEFS[k], {"label"}, {})]

vp_json(cards) == [k \in 1..Len(cards) |-> safe_json_dict(cards[k], CardStrings, {"agents"})]

teams_json(team_data_) ==
    [k \in 1..Len(team_data_) |->
        [safe_json_dict(team_data_[k], TeamStrings, {}) EXCEPT
            !.members = [j \in 1..Len(team_data_[k].members) |->
                            safe_json_dict(team_data_[k].members[j], MemberStrings, {})]]]

detail_json(d) ==
    [ek \in {safe_json(key) : key \in DOMAIN d} |->
        safe_json_dict(d[CHOOSE key \in DOMAIN d : safe_json(key) = ek], DetailStrings, DetailLists)]

sprint_json(alt) ==
    IF alt.none THEN alt ELSE SomePath(safe_json_dict(alt.path, PathStrings, PathLists))

color_map_json(cm) ==
    [ek \in {safe_json(key) : key \in DOMAIN cm} |->
        cm[CHOOSE key \in DOMAIN cm : safe_json(key) = ek]]

\* the same pieces as the script of the page reads them
read_agents(j) == [k \in 1..Len(j) |-> js_dict(j[k], AgentStrings, AgentLists)]

read_lifecycle(j) ==
    [k \in 1..Len(j) |->
        [js_dict(j[k], StepStrings, {}) EXCEPT
            !.agents = [i \in 1..Len(j[k].agents) |-> js_dict(j[k].agents[i], RoleStrings, {})]]]

read_teams(j) ==
    [k \in 1..Len(j) |->
        [js_dict(j[k], TeamStrings, {}) EXCEPT
            !.members = [i \in 1..Len(j[k].members) |-> js_dict(j[k].members[i], MemberStrings, {})]]]

read_detail(j) ==
    [key \in {js_string(ek) : ek \in DOMAIN j} |->
        js_dict(j[CHOOSE ek \in DOMAIN j : js_string(ek) = key], DetailStrings, DetailLists)]

(***************************************************************************)
(* build_from_plugin: the regular expressions it searches with             *)
(***************************************************************************)
\* the characters \w and [\w-] match
WordChars ==
    {UpperChars[i] : i \in 1..26} \cup {LowerChars[i] : i \in 1..26} \cup DigitChars \cup {"_"}
NameChars == WordChars \cup {"-"}

\* characters outside ASCII and the backtick, named by their code points
Arrow == "U+2192"
Backtick == "U+0060"

\* re.findall(r'@(\w[\w-]*)', text): a match starts at every @ that a word character
\* follows and takes the run of [\w-] after it
findall_agent_refs(text) ==
    LET at == {p \in 1..(Len(text) - 1) : text[p] = "@" /\ text[p + 1] \in WordChars}
    IN  [k \in 1..Cardinality(at) |->
            substr(text, Nth(at, k) + 1, RunIn(text, Nth(at, k) + 2, NameChars))]

\* re.findall(r'@([\w-]+)', text)
findall_member_refs(text) ==
    LET at == {p \in 1..(Len(text) - 1) : text[p] = "@" /\ text[p + 1] \in NameChars}
    IN  [k \in 1..Cardinality(at) |->
            substr(text, Nth(at, k) + 1, RunIn(text, Nth(at, k) + 2, NameChars))]

WhenDelegatedTo == <<"W","h","e","n"," ","D","e","l","e","g","a","t","e","d"," ","T","o">>

\* re.search(r'When Delegated To.*?$', agent_body, DOTALL | MULTILINE): group(0) of
\* the match, None without one. The lazy .*? stops at the first end of a line
delegated_section(agent_body) ==
    LET occ == Occurrences(WhenDelegatedTo, agent_body)
    IN  IF occ = {} THEN None
        ELSE substr(agent_body, SetMin(occ),
                    RunNotIn(agent_body, SetMin(occ) + Len(WhenDelegatedTo), {"\n"}))

CliToolsHeading == <<"#","#","#"," ","C","L","I"," ","T","o","o","l","s","\n">>

\* re.search(r'### CLI Tools\n(.*?)(?=\n###|\n##|\Z)', claude_content, DOTALL):
\* group(1), None without a match
cli_section(text) ==
    LET occ == Occurrences(CliToolsHeading, text)
        from == SetMin(occ) + Len(CliToolsHeading)
        stops == {q \in from..Len(text) : substr(text, q, q + 2) = <<"\n", "#", "#">>}
    IN  IF occ = {} THEN None
        ELSE substr(text, from, IF stops = {} THEN Len(text) ELSE SetMin(stops) - 1)

\* the lengths group 1 of r'\*\*([^*]+?)(?:\s*\([^)]*\))?\*\*' can have in a match
\* that starts at p: the group holds no *, and after it comes either whitespace and
\* a parenthesis closed before **, or ** at once
tool_name_lengths(line, p) ==
    {k \in 1..(Len(line) - p - 1) :
        /\ \A i \in (p + 2)..(p + 1 + k) : line[i] # "*"
        /\ LET e == p + 1 + k
               w == RunIn(line, e + 1, SpaceChars)
               closing == {j \in (w + 2)..Len(line) : line[j] = ")"}
           IN  \/ /\ w + 1 <= Len(line)
                  /\ line[w + 1] = "("
                  /\ closing # {}
                  /\ substr(line, SetMin(closing) + 1, SetMin(closing) + 2) = <<"*", "*">>
               \/ substr(line, e + 1, e + 2) = <<"*", "*">>}

\* tool_match.group(1), None without a match: the leftmost start, the shortest group
tool_match(line) ==
    LET at == {p \in 1..(Len(line) - 1) :
                    line[p] = "*" /\ line[p + 1] = "*" /\ tool_name_lengths(line, p) # {}}
    IN  IF at = {} THEN None
        ELSE substr(line, SetMin(at) + 2, SetMin(at) + 1 + SetMin(tool_name_lengths(line, SetMin(at))))

\* desc_match.group(1).strip() for r'\*\*:\s*(.+)', "" without a match: the text after
\* the first **: of the line, stripped
tool_desc(line) ==
    LET occ == Occurrences(<<"*", "*", ":">>, line)
    IN  IF occ = {} THEN <<>> ELSE strip(substr(line, SetMin(occ) + 3, Len(line)))

ToolAccess == <<"T","o","o","l"," ","A","c","c","e","s","s">>

\* re.search(r'Tool Access.*?(?=^#[^#]|\Z)', claude_content, DOTALL | MULTILINE):
\* group(0), None without a match
tool_section(text) ==
    LET occ == Occurrences(ToolAccess, text)
        from == SetMin(occ) + Len(ToolAccess)
        stops == {q \in from..(Len(text) - 1) :
                    text[q] = "#" /\ text[q - 1] = "\n" /\ text[q + 1] # "#"}
    IN  IF occ = {} THEN None
        ELSE substr(text, SetMin(occ), IF stops = {} THEN Len(text) ELSE SetMin(stops) - 1)

\* the end of /[\w-]+:[\w-]+ at position i, 0 when it does not match there
step_end(text, i) ==
    IF i > Len(text) \/ i < 1 THEN 0
    ELSE IF text[i] # "/" THEN 0
    ELSE LET a == RunIn(text, i + 1, NameChars)
         IN  IF a < i + 1 \/ a + 1 > Len(text) THEN 0
             ELSE IF text[a + 1] # ":" THEN 0
             ELSE LET b == RunIn(text, a + 2, NameChars)
                  IN  IF b < a + 2 THEN 0 ELSE b

\* the end of \s*→\s*/[\w-]+:[\w-]+ after position e, 0 when it does not match
next_step_end(text, e) ==
    LET w == RunIn(text, e + 1, SpaceChars)
    IN  IF w + 1 > Len(text) THEN 0
        ELSE IF text[w + 1] # Arrow THEN 0
        ELSE step_end(text, RunIn(text, w + 2, SpaceChars) + 1)

\* the end of the longest chain of steps that continues after position e
RECURSIVE chain_end(_, _)
chain_end(text, e) ==
    IF next_step_end(text, e) = 0 THEN e ELSE chain_end(text, next_step_end(text, e))

\* lc_match.group(1) for r'(/[\w-]+:[\w-]+(?:\s*→\s*/[\w-]+:[\w-]+)+)', None without
\* a match
lc_match(text) ==
    LET at == {p \in 1..Len(text) :
                    step_end(text, p) # 0 /\ next_step_end(text, step_end(text, p)) # 0}
    IN  IF at = {} THEN None
        ELSE substr(text, SetMin(at), chain_end(text, step_end(text, SetMin(at))))

\* the end of (?:\s*\+\s*@[\w-]+)* after position e
RECURSIVE members_end(_, _)
members_end(text, e) ==
    LET w == RunIn(text, e + 1, SpaceChars)
        v == RunIn(text, w + 2, SpaceChars)
        m == RunIn(text, v + 2, NameChars)
    IN  IF w + 1 <= Len(text) /\ text[w + 1] = "+" /\ v + 1 <= Len(text) /\ text[v + 1] = "@"
           /\ m >= v + 2
        THEN members_end(text, m)
        ELSE e

\* the match of r'\*\*([^*]+)\*\*:\s*(@[\w-]+(?:\s*\+\s*@[\w-]+)*)' that starts at p:
\* its two groups and its end, end = 0 when there is none
team_match_at(text, p) ==
    LET r == RunNotIn(text, p + 2, {"*"})
        w == RunIn(text, r + 4, SpaceChars)
        m == RunIn(text, w + 2, NameChars)
    IN  IF /\ substr(text, p, p + 1) = <<"*", "*">>
           /\ r >= p + 2
           /\ substr(text, r + 1, r + 3) = <<"*", "*", ":">>
           /\ w + 1 <= Len(text)
           /\ text[w + 1] = "@"
           /\ m >= w + 2
        THEN [team_name |-> substr(text, p + 2, r),
              members_str |-> substr(text, w + 1, members_end(text, m)),
              end |-> members_end(text, m)]
        ELSE [team_name |-> <<>>, members_str |-> <<>>, end |-> 0]

\* re.findall of that pattern from position pos on: the matches from left to right,
\* a search starting where the match before it ended
RECURSIVE team_pattern_from(_, _)
team_pattern_from(text, pos) ==
    LET at == {p \in pos..Len(text) : team_match_at(text, p).end # 0}
    IN  IF at = {} THEN <<>>
        ELSE <<team_match_at(text, SetMin(at))>> \o
             team_pattern_from(text, team_match_at(text, SetMin(at)).end + 1)

team_pattern(text) == team_pattern_from(text, 1)

(***************************************************************************)
(* build_from_plugin: discovery and relationship inference                 *)
(***************************************************************************)
META_SKILLS ==
    { <<"s","p","r","i","n","t">>, <<"s","t","a","n","d","u","p">>, <<"s","c","a","f","f","o","l","d">>, <<"h","e","l","p">>, <<"k","i","c","k","o","f","f">>, <<"s","t","o","r","y">> }

\* "if skill_name in META_SKILLS: continue", and a test no skill passes
is_meta_skill_never(skill_name) == FALSE
is_meta_skill(skill_name) == skill_name \in META_SKILLS

DefaultName == <<"M","y"," ","A","I"," ","O","r","g">>

\* the default max_len of shorten_description
DefaultMaxLen == 40

\* name = pj.get("name", name).replace("-", " ").title()
manifest_name(pj) == title(replace_char(field(pj, "name", DefaultName), "-", <<" ">>))

\* meta.get(key, default) for a key of the frontmatter
meta_get(meta_, key, default) == IF key \in DOMAIN meta_ THEN meta_[key].v ELSE default

\* the items of a list that are not empty
non_empty(items) ==
    LET keep == {i \in 1..Len(items) : items[i] # <<>>}
    IN  [k \in 1..Cardinality(keep) |-> items[Nth(keep, k)]]

\* [s.strip() for s in text.split(",") if s.strip()]
split_commas(text) ==
    non_empty([k \in 1..Len(split_char(text, ",")) |-> strip(split_char(text, ",")[k])])

\* raw_skills: the frontmatter's skills, a string split at its commas
raw_skills(meta_) ==
    IF <<"s","k","i","l","l","s">> \notin DOMAIN meta_ THEN <<>>
    ELSE IF meta_[<<"s","k","i","l","l","s">>].kind = "str" THEN split_commas(meta_[<<"s","k","i","l","l","s">>].v)
    ELSE meta_[<<"s","k","i","l","l","s">>].v

\* fix_name_casing(x.replace("-", " ").title())
display_name(raw_name) == fix_name_casing(title(replace_char(raw_name, "-", <<" ">>)))

\* the canonical name of an agent file: the frontmatter's name, else the file's name
\* without its extension
agent_name_of(file) == meta_get(parse_frontmatter(file.text).meta, <<"n","a","m","e">>, file.stem)

\* "if agent_name.lower() == 'observer': continue", and the same test without lower()
is_observer_exact(agent_name) == agent_name = <<"o","b","s","e","r","v","e","r">>
is_observer(agent_name) == lower(agent_name) = <<"o","b","s","e","r","v","e","r">>

\* the entry of an agent file
agent_of(file) ==
    LET parsed == parse_frontmatter(file.text)
        full_desc == meta_get(parsed.meta, <<"d","e","s","c","r","i","p","t","i","o","n">>, <<>>)
    IN  [name |-> display_name(agent_name_of(file)),
         model |-> meta_get(parsed.meta, <<"m","o","d","e","l">>, Inherit),
         skills |-> <<>>,
         knowledge_skills |-> raw_skills(parsed.meta),
         mcps |-> <<>>,
         cli_tools |-> <<>>,
         description |-> shorten_description(full_desc, DefaultMaxLen),
         detail_description |-> full_desc,
         markdown |-> strip(parsed.body)]

\* the loop over sorted(glob(agents/*.md)): the files arrive sorted by path
RECURSIVE discover_agents(_)
discover_agents(files) ==
    IF Len(files) = 0 THEN <<>>
    ELSE (IF is_observer(agent_name_of(Head(files))) THEN <<>> ELSE <<agent_of(Head(files))>>)
         \o discover_agents(Tail(files))

\* the name of a skill: the frontmatter's name, else the name of its directory
skill_name_of(skill_dir) == meta_get(parse_frontmatter(skill_dir.text).meta, <<"n","a","m","e">>, skill_dir.dir)

\* the entry of a skill directory
skill_of(skill_dir) ==
    LET parsed == parse_frontmatter(skill_dir.text)
        full_desc == meta_get(parsed.meta, <<"d","e","s","c","r","i","p","t","i","o","n">>, <<>>)
    IN  [name |-> skill_name_of(skill_dir),
         description |-> shorten_description(full_desc, DefaultMaxLen),
         detail_description |-> full_desc,
         markdown |-> strip(parsed.body)]

\* the directories that hold a SKILL.md
with_skill_md(dirs) ==
    LET keep == {i \in 1..Len(dirs) : dirs[i].has_skill_md}
    IN  [k \in 1..Cardinality(keep) |-> dirs[Nth(keep, k)]]

\* the loop over sorted(glob(skills/*))
discover_skills(dirs) ==
    [k \in 1..Len(with_skill_md(dirs)) |-> skill_of(with_skill_md(dirs)[k])]

\* d[key] = value for a dict kept as the list of its <<key, value>> items in
\* insertion order
items_set(items, key, value) ==
    IF \E i \in 1..Len(items) : items[i][1] = key
    THEN [i \in 1..Len(items) |-> IF items[i][1] = key THEN <<key, value>> ELSE items[i]]
    ELSE Append(items, <<key, value>>)

\* skill_bodies after the loop
RECURSIVE discover_skill_bodies(_, _)
discover_skill_bodies(dirs, items) ==
    IF Len(dirs) = 0 THEN items
    ELSE discover_skill_bodies(Tail(dirs),
            IF Head(dirs).has_skill_md
            THEN items_set(items, skill_name_of(Head(dirs)), parse_frontmatter(Head(dirs).text).body)
            ELSE items)

\* skill_names: the set of the names of the skills
skill_names_of(skills_) == {skills_[i].name : i \in 1..Len(skills_)}

\* the three keys an agent is known by
slug_key(agent) == replace_char(lower(agent.name), " ", <<"-">>)
joined_key(agent) == replace_char(lower(agent.name), " ", <<>>)
lower_key(agent) == lower(agent.name)

\* agent_name_lower with a key that is not in the dict standing for the first agent
agent_name_lower_or_first(agents_, key) ==
    LET n == Len(agents_)
        hits == {j \in 1..n :
                    slug_key(agents_[j]) = key \/ joined_key(agents_[j]) = key
                        \/ lower_key(agents_[j]) = key}
    IN  IF hits = {} THEN (IF n > 0 THEN 1 ELSE 0) ELSE SetMax(hits)

\* agent_name_lower[key]: the position of the agent the key stands for after the dict
\* and its two updates, 0 when the key is not in it
agent_name_lower(agents_, key) ==
    LET n == Len(agents_)
        hits == {j \in 1..(3 * n) :
                    IF j <= n THEN slug_key(agents_[j]) = key
                    ELSE IF j <= 2 * n THEN joined_key(agents_[j - n]) = key
                    ELSE lower_key(agents_[j - 2 * n]) = key}
    IN  IF hits = {} THEN 0 ELSE ((SetMax(hits) - 1) % n) + 1

\* agent["skills"].append(skill_name), always and guarded by "not in"
add_skill_always(agents_, idx, skill_name) ==
    [agents_ EXCEPT ![idx].skills = Append(@, skill_name)]
add_skill(agents_, idx, skill_name) ==
    IF in_list(skill_name, agents_[idx].skills) THEN agents_
    ELSE [agents_ EXCEPT ![idx].skills = Append(@, skill_name)]

\* the loop over the references of one skill body
RECURSIVE forward_refs(_, _, _)
forward_refs(agents_, skill_name, refs) ==
    IF Len(refs) = 0 THEN agents_
    ELSE LET idx == agent_name_lower(agents_, lower(Head(refs)))
         IN  forward_refs(IF idx = 0 THEN agents_ ELSE add_skill(agents_, idx, skill_name),
                          skill_name, Tail(refs))

\* Forward: the loop over skill_bodies.items(), the meta-skills skipped
RECURSIVE forward_inference(_, _)
forward_inference(agents_, bodies) ==
    IF Len(bodies) = 0 THEN agents_
    ELSE forward_inference(
            IF is_meta_skill(Head(bodies)[1]) THEN agents_
            ELSE forward_refs(agents_, Head(bodies)[1], findall_agent_refs(Head(bodies)[2])),
            Tail(bodies))

\* f"/{sn}" in section_text or f"`{sn}`" in section_text
section_names(section_text, sn) ==
    \/ contains(section_text, <<"/">> \o sn)
    \/ contains(section_text, <<Backtick>> \o sn \o <<Backtick>>)

\* the loop over skill_names for one agent, the names in the order the set gives them
RECURSIVE reverse_agent(_, _, _)
reverse_agent(agent, section_text, order) ==
    IF Len(order) = 0 THEN agent
    ELSE reverse_agent(
            IF /\ ~is_meta_skill(Head(order))
               /\ section_names(section_text, Head(order))
               /\ ~in_list(Head(order), agent.skills)
            THEN [agent EXCEPT !.skills = Append(@, Head(order))]
            ELSE agent,
            section_text, Tail(order))

\* delegated_section of every agent, None where the search finds nothing
delegated_sections(agents_) ==
    [k \in 1..Len(agents_) |-> delegated_section(field(agents_[k], "markdown", <<>>))]

\* Reverse: the loop over the agents, sections being their delegated sections
reverse_inference(agents_, sections, order) ==
    [k \in 1..Len(agents_) |->
        IF sections[k] = None THEN agents_[k]
        ELSE reverse_agent(agents_[k], sections[k], order)]

\* the orders in which a set of names can be iterated
RECURSIVE orders_of(_)
orders_of(S) ==
    IF S = {} THEN {<<>>}
    ELSE UNION {{<<x>> \o rest : rest \in orders_of(S \ {x})} : x \in S}

\* the entry of a server of .mcp.json
mcp_of(server) ==
    LET cmd == field(server.cfg, "command", <<>>)
        mcp_args == field(server.cfg, "args", <<>>)
    IN  [name |-> display_name(server.name),
         description |-> <<>>,
         detail_description |->
            IF cmd # <<>>
            THEN <<"C","o","m","m","a","n","d",":"," ">> \o cmd \o <<" ">> \o join(substr(mcp_args, 1, 2), <<" ">>)
            ELSE <<>>]

\* the loop over mcpServers
discover_mcps(servers) == [k \in 1..Len(servers) |-> mcp_of(servers[k])]

\* line.strip().startswith('-')
is_bullet(line) == startswith(strip(line), <<"-">>)

\* the loop over the lines of the CLI Tools section
RECURSIVE cli_tools_of_lines(_)
cli_tools_of_lines(lines) ==
    IF Len(lines) = 0 THEN <<>>
    ELSE (IF is_bullet(Head(lines)) /\ tool_match(Head(lines)) # None
          THEN <<[name |-> fix_name_casing(strip(tool_match(Head(lines)))),
                  description |-> tool_desc(Head(lines))]>>
          ELSE <<>>) \o cli_tools_of_lines(Tail(lines))

\* cli_tools
discover_cli_tools(text) ==
    IF text = <<>> THEN <<>>
    ELSE IF cli_section(text) = None THEN <<>>
    ELSE cli_tools_of_lines(split_char(cli_section(text), "\n"))

\* matched_mcp without the break: the last tool whose lower-case name the line holds
matched_mcp_last(mcps_, line_lower) ==
    LET at == {i \in 1..Len(mcps_) : contains(line_lower, lower(mcps_[i].name))}
    IN  IF at = {} THEN 0 ELSE SetMax(at)

\* matched_mcp: the position of the first tool whose lower-case name the line holds,
\* 0 when there is none
matched_mcp(mcps_, line_lower) ==
    LET at == {i \in 1..Len(mcps_) : contains(line_lower, lower(mcps_[i].name))}
    IN  IF at = {} THEN 0 ELSE SetMin(at)

\* the agents after one line of the Tool Access section
assign_line(agents_, mcps_, line) ==
    LET line_lower == lower(line)
        at == matched_mcp(mcps_, line_lower)
    IN  IF ~is_bullet(line) \/ at = 0 THEN agents_
        ELSE [k \in 1..Len(agents_) |->
                IF contains(line_lower, lower(agents_[k].name))
                   /\ ~in_list(mcps_[at].name, agents_[k].mcps)
                THEN [agents_[k] EXCEPT !.mcps = Append(@, mcps_[at].name)]
                ELSE agents_[k]]

RECURSIVE assign_lines(_, _, _)
assign_lines(agents_, mcps_, lines) ==
    IF Len(lines) = 0 THEN agents_
    ELSE assign_lines(assign_line(agents_, mcps_, Head(lines)), mcps_, Tail(lines))

\* "Assign MCPs to agents based on CLAUDE.md per-bullet hints"
assign_mcps(agents_, mcps_, text) ==
    IF Len(mcps_) = 0 \/ text = <<>> THEN agents_
    ELSE IF tool_section(text) = None THEN agents_
    ELSE assign_lines(agents_, mcps_, split_char(tool_section(text), "\n"))

\* the loop over the tools for an agent without tools
RECURSIVE fallback_agent(_, _)
fallback_agent(agent, mcps_) ==
    IF Len(mcps_) = 0 THEN agent
    ELSE LET agent_lower == lower(agent.name)
             tools == lower(field(agent, "detail_description", <<>>))
             mcp_lower == lower(Head(mcps_).name)
         IN  fallback_agent(
                IF contains(mcp_lower, <<"d","e","v","t","o","o","l","s">>)
                   /\ (contains(tools, <<"u","i">>) \/ contains(agent_lower, <<"d","e","s","i","g","n">>))
                THEN [agent EXCEPT !.mcps = Append(@, Head(mcps_).name)]
                ELSE IF contains(mcp_lower, <<"c","o","n","t","e","x","t">>) /\ contains(agent_lower, <<"r","e","s","e","a","r","c","h">>)
                THEN [agent EXCEPT !.mcps = Append(@, Head(mcps_).name)]
                ELSE agent,
                Tail(mcps_))

\* "Fallback: role-based heuristics for agents with no MCPs assigned"
fallback_mcps(agents_, mcps_) ==
    [k \in 1..Len(agents_) |->
        IF Len(agents_[k].mcps) = 0 /\ Len(mcps_) > 0 THEN fallback_agent(agents_[k], mcps_)
        ELSE agents_[k]]

\* the loop over the CLI tools for an agent
RECURSIVE cli_agent(_, _)
cli_agent(agent, tools) ==
    IF Len(tools) = 0 THEN agent
    ELSE cli_agent(
            IF contains(lower(Head(tools).name), <<"g","i","t","h","u","b">>)
               /\ lower(agent.name) \in { <<"e","n","g","i","n","e","e","r">>, <<"q","a">> }
            THEN [agent EXCEPT !.cli_tools = Append(@, Head(tools).name)]
            ELSE agent,
            Tail(tools))

\* the code-related roles given gh whatever CLI tools the notes name
assign_cli_tools_gh(agents_, tools) ==
    [k \in 1..Len(agents_) |->
        IF lower(agents_[k].name) \in { <<"e","n","g","i","n","e","e","r">>, <<"q","a">> }
        THEN [agents_[k] EXCEPT !.cli_tools = Append(@, <<"g","h">>)]
        ELSE agents_[k]]

\* "Assign CLI tools to agents"
assign_cli_tools(agents_, tools) == [k \in 1..Len(agents_) |-> cli_agent(agents_[k], tools)]

core_skills ==
    << <<"d","i","s","c","o","v","e","r">>, <<"s","p","e","c">>, <<"d","e","s","i","g","n">>, <<"b","u","i","l","d">>, <<"r","e","v","i","e","w">>, <<"s","h","i","p">> >>

\* the items of a list that are in a set
only_in(items, S) ==
    LET keep == {i \in 1..Len(items) : items[i] \in S}
    IN  [k \in 1..Cardinality(keep) |-> items[Nth(keep, k)]]

\* the whole token instead of its last segment
whole_token(s) == strip(s)

\* s.split(":")[-1].strip()
last_segment(s) == strip(split_char(s, ":")[Len(split_char(s, ":"))])

\* lifecycle
parse_lifecycle(text, skill_names) ==
    IF lc_match(text) # None
    THEN [k \in 1..Len(split_char(lc_match(text), Arrow)) |->
            last_segment(split_char(lc_match(text), Arrow)[k])]
    ELSE only_in(core_skills, skill_names)

\* agent_display[key]: the name of the last agent with that lower-case name, None
\* when there is none
agent_display(agents_, key) ==
    LET at == {i \in 1..Len(agents_) : lower(agents_[i].name) = key}
    IN  IF at = {} THEN None ELSE agents_[SetMax(at)].name

\* what a reference adds to resolved
resolve_ref_raw(agents_, ref) == <<ref>>
resolve_ref(agents_, ref) ==
    LET ref_lower == replace_char(lower(ref), "-", <<" ">>)
    IN  IF agent_display(agents_, ref_lower) # None THEN <<agent_display(agents_, ref_lower)>>
        ELSE IF \E i \in 1..Len(agents_) : lower(agents_[i].name) = ref_lower
        THEN <<display_name(ref)>>
        ELSE <<>>

\* resolved: the members of a team
RECURSIVE resolved_of(_, _)
resolved_of(agents_, member_refs) ==
    IF Len(member_refs) = 0 THEN <<>>
    ELSE resolve_ref(agents_, Head(member_refs)) \o resolved_of(agents_, Tail(member_refs))

\* the teams named in the notes
RECURSIVE named_teams(_, _)
named_teams(agents_, matches) ==
    IF Len(matches) = 0 THEN <<>>
    ELSE LET resolved == resolved_of(agents_, findall_member_refs(Head(matches).members_str))
         IN  (IF Len(resolved) > 0
              THEN <<[name |-> strip(Head(matches).team_name), members |-> resolved]>>
              ELSE <<>>) \o named_teams(agents_, Tail(matches))

\* the names of the agents that have one of the skills
agents_with(agents_, names) ==
    LET keep == {i \in 1..Len(agents_) : \E s \in names : in_list(s, agents_[i].skills)}
    IN  [k \in 1..Cardinality(keep) |-> agents_[Nth(keep, k)].name]

\* a team when it has members
team_if_any(team_name, members) ==
    IF Len(members) > 0 THEN <<[name |-> team_name, members |-> members]>> ELSE <<>>

\* "Fallback: build from agent skills if no teams found in CLAUDE.md"
heuristic_teams(agents_) ==
    IF Len(agents_) >= 3
    THEN team_if_any(<<"D","i","s","c","o","v","e","r","y"," ","S","p","r","i","n","t">>, agents_with(agents_, { <<"d","i","s","c","o","v","e","r">> }))
         \o team_if_any(<<"B","u","i","l","d"," ","&"," ","Q","A">>,
                        agents_with(agents_, { <<"b","u","i","l","d">>, <<"d","e","s","i","g","n">>, <<"r","e","v","i","e","w">> }))
         \o team_if_any(<<"S","h","i","p"," ","&"," ","L","a","u","n","c","h">>,
                        agents_with(agents_, { <<"s","h","i","p">>, <<"r","e","l","e","a","s","e","-","n","o","t","e","s">> }))
    ELSE <<>>

\* the fallback taken only when no pattern matches in the notes
build_teams_by_pattern(agents_, text) ==
    IF Len(team_pattern(text)) > 0
    THEN named_teams(agents_, team_pattern(text))
    ELSE heuristic_teams(agents_)

\* teams
build_teams(agents_, text) ==
    IF Len(named_teams(agents_, team_pattern(text))) > 0
    THEN named_teams(agents_, team_pattern(text))
    ELSE heuristic_teams(agents_)

\* alternate_paths
build_alternate_paths(skills_) ==
    LET meta_skill_names == skill_names_of(skills_) \cap META_SKILLS
    IN  (IF <<"s","p","r","i","n","t">> \in meta_skill_names
         THEN <<[name |-> <<"s","p","r","i","n","t">>,
                 description |-> <<"B","a","t","c","h","-","e","x","e","c","u","t","e"," ","m","u","l","t","i","p","l","e"," ","t","i","c","k","e","t","s"," ","i","n"," ","p","a","r","a","l","l","e","l">>,
                 replaces |-> << <<"b","u","i","l","d">> >>]>>
         ELSE <<>>)
        \o (IF <<"k","i","c","k","o","f","f">> \in meta_skill_names
            THEN <<[name |-> <<"k","i","c","k","o","f","f">>,
                    description |-> <<"T","e","a","m"," ","m","e","e","t","i","n","g"," ","U+2014"," ","u","s","e"," ","a","t"," ","a","n","y"," ","p","o","i","n","t">>,
                    type |-> <<"a","n","y","t","i","m","e">>]>>
            ELSE <<>>)
        \o (IF <<"s","t","a","n","d","u","p">> \in meta_skill_names
            THEN <<[name |-> <<"s","t","a","n","d","u","p">>, description |-> <<"D","a","i","l","y"," ","s","u","m","m","a","r","y">>,
                    type |-> <<"a","n","y","t","i","m","e">>]>>
            ELSE <<>>)

\* skill_bodies.get(name, "")
body_of(bodies, skill_name) ==
    LET at == {i \in 1..Len(bodies) : bodies[i][1] = skill_name}
    IN  IF at = {} THEN <<>> ELSE bodies[SetMin(at)][2]

\* sk_agents: the names of the agents a body refers to, each once
RECURSIVE sk_agents_of(_, _, _)
sk_agents_of(agents_, refs, sk_agents) ==
    IF Len(refs) = 0 THEN sk_agents
    ELSE LET idx == agent_name_lower(agents_, lower(Head(refs)))
         IN  sk_agents_of(agents_, Tail(refs),
                IF idx = 0 THEN sk_agents ELSE append_new(sk_agents, agents_[idx].name))

\* utility_skills
build_utility_skills(agents_, skills_, bodies) ==
    LET keep == {i \in 1..Len(skills_) : skills_[i].name \in META_SKILLS}
    IN  [k \in 1..Cardinality(keep) |->
            [name |-> skills_[Nth(keep, k)].name,
             description |-> field(skills_[Nth(keep, k)], "description", <<>>),
             agents |-> sk_agents_of(agents_,
                            findall_agent_refs(body_of(bodies, skills_[Nth(keep, k)].name)), <<>>)]]

(***************************************************************************)
(* build_from_cli                                                          *)
(***************************************************************************)
\* the slice skills[:7]
LifecycleLimit == 7

\* lifecycle = skills[:7], and the same without the slice
cli_lifecycle_all(skills_) == skills_
cli_lifecycle(skills_) ==
    SubSeq(skills_, 1, IF Len(skills_) < LifecycleLimit THEN Len(skills_) ELSE LifecycleLimit)

\* [m.strip() for m in parts[1].split("+")]: blank members are kept
cli_members(text) ==
    [k \in 1..Len(split_char(text, "+")) |-> strip(split_char(text, "+")[k])]

\* the team of one item of --teams, none unless the item is Name:A+B
cli_team(item) ==
    LET parts == split_char(strip(item), ":")
    IN  IF Len(parts) = 2
        THEN <<[name |-> strip(parts[1]), members |-> cli_members(parts[2])]>>
        ELSE <<>>

\* the loop over args.teams.split(",")
RECURSIVE cli_teams_of(_)
cli_teams_of(items) ==
    IF Len(items) = 0 THEN <<>> ELSE cli_team(Head(items)) \o cli_teams_of(Tail(items))

cli_teams(text) == IF text = <<>> THEN <<>> ELSE cli_teams_of(split_char(text, ","))

\* the agent of a name: every agent gets the same skills and tools
cli_agent_of(a, skills_, mcps_list) ==
    [name |-> a, model |-> Inherit, skills |-> skills_, knowledge_skills |-> <<>>,
     mcps |-> mcps_list, cli_tools |-> <<>>, description |-> <<>>]

\* build_from_cli(args)
build_from_cli(cli) ==
    LET agents_ == IF cli.agents = <<>> THEN <<>> ELSE split_commas(cli.agents)
        skills_ == IF cli.skills = <<>> THEN <<>> ELSE split_commas(cli.skills)
        mcps_list == IF cli.mcps = <<>> THEN <<>> ELSE split_commas(cli.mcps)
    IN  [name |-> or_else(cli.name, DefaultName),
         agents |-> [k \in 1..Len(agents_) |-> cli_agent_of(agents_[k], skills_, mcps_list)],
         skills |-> [k \in 1..Len(skills_) |-> [name |-> skills_[k], description |-> <<>>]],
         mcps |-> [k \in 1..Len(mcps_list) |-> [name |-> mcps_list[k], description |-> <<>>]],
         cli_tools |-> <<>>,
         teams |-> cli_teams(cli.teams),
         lifecycle |-> cli_lifecycle(skills_),
         alternate_paths |-> <<>>]

(***************************************************************************)
(* parse_frontmatter run line by line on bounded documents                 *)
(***************************************************************************)
\* the most lines a document has
MaxFmLines == 4

\* the lines the documents are made of
FmLines ==
    << <<"-","-","-">>,
       <<>>,
       <<"n","a","m","e",":"," ","q","a">>,
       <<"s","k","i","l","l","s",":">>,
       <<" "," ","-"," ","b","u","i","l","d">>,
       <<"t","a","g","s",":"," ","[","a",","," ","'","b","'","]">>,
       <<"B","o","d","y"," ","t","e","x","t">> >>

\* a document is some lines, bare or with a final newline, or the same lines framed
\* as a header: "---", the lines, "---" and a body
FmFramed(text) == <<"-","-","-","\n">> \o text \o <<"\n","-","-","-","\n","B","o","d","y"," ","t","e","x","t">>

FmInputs ==
    LET texts == {join([k \in DOMAIN f |-> FmLines[f[k]]], <<"\n">>) :
                    f \in UNION {[1..m -> 1..Len(FmLines)] : m \in 1..MaxFmLines}}
    IN  texts \cup {t \o <<"\n">> : t \in texts} \cup {FmFramed(t) : t \in texts}

\* lines 39-45: the header is matched and split into lines, or there is none
MatchHeader ==
    /\ fpc = "match"
    /\ IF header_match(content)
       THEN /\ raw_lines' = split_char(header_groups(content).raw_meta, "\n")
            /\ body' = header_groups(content).body
            /\ line_no' = 1
            /\ fpc' = "loop"
       ELSE /\ fpc' = "done"
            /\ UNCHANGED <<raw_lines, body, line_no>>
    /\ UNCHANGED <<content, meta, current_key, current_list>>
    /\ UNCHANGED nonFmVars

\* lines 47-76: one iteration of the loop over the header's lines
HeaderLine ==
    /\ fpc = "loop"
    /\ line_no <= Len(raw_lines)
    /\ LET st == fm_step([meta |-> meta, current_key |-> current_key,
                          current_list |-> current_list, raised |-> FALSE],
                         raw_lines[line_no])
       IN  /\ meta' = st.meta
           /\ current_key' = st.current_key
           /\ current_list' = st.current_list
           /\ fpc' = IF st.raised THEN "raised" ELSE "loop"
    /\ line_no' = line_no + 1
    /\ UNCHANGED <<content, body, raw_lines>>
    /\ UNCHANGED nonFmVars

\* lines 78-82: the final flush and the return
FinalFlush ==
    /\ fpc = "loop"
    /\ line_no > Len(raw_lines)
    /\ LET st == flush_list([meta |-> meta, current_key |-> current_key,
                             current_list |-> current_list, raised |-> FALSE])
       IN  /\ meta' = st.meta
           /\ current_list' = st.current_list
    /\ fpc' = "done"
    /\ UNCHANGED <<content, body, raw_lines, line_no, current_key>>
    /\ UNCHANGED nonFmVars

FmNext == MatchHeader \/ HeaderLine \/ FinalFlush

(***************************************************************************)
(* The text heuristics called on bounded inputs                            *)
(***************************************************************************)
\* the most pieces a text is made of, and the largest max_len tried
MaxPieces == 3
MaxBudget == 5

\* the pieces the input texts are concatenations of
TextPieces ==
    << <<"s","p","e","c","i","a","l","i","z","i","n","g"," ","i","n"," ">>,
       <<"f","o","r"," ">>,
       <<"c","o","v","e","r","i","n","g"," ">>,
       <<"t","h","e"," ">>,
       <<"a","p","i",","," ","u","i"," ","d","e","s","i","g","n",","," ","a","n","d"," ","q","a">>,
       <<"u","i"," ","u","x"," ">>,
       <<"d","e","s","i","g","n","e","r">>,
       <<"g","i","t","h","u","b">>,
       <<".">> >>

RECURSIVE Flatten(_)
Flatten(ss) == IF Len(ss) = 0 THEN <<>> ELSE Head(ss) \o Flatten(Tail(ss))

TextInputs ==
    {Flatten([k \in DOMAIN f |-> TextPieces[f[k]]]) :
        f \in UNION {[1..m -> 1..Len(TextPieces)] : m \in 1..MaxPieces}}

\* shorten_description(text_in, max_len)
Shorten ==
    /\ tpc = "start"
    /\ short1' = shorten_description(text_in, max_len)
    /\ tpc' = "shortened"
    /\ UNCHANGED <<text_in, max_len, short2, cased>>
    /\ UNCHANGED nonTextVars

\* shorten_description called on its own result
ShortenAgain ==
    /\ tpc = "shortened"
    /\ short2' = shorten_description(short1, max_len)
    /\ tpc' = "reshortened"
    /\ UNCHANGED <<text_in, max_len, short1, cased>>
    /\ UNCHANGED nonTextVars

\* fix_name_casing(text_in)
FixNameCasing ==
    /\ tpc = "start"
    /\ cased' = fix_name_casing(text_in)
    /\ tpc' = "cased"
    /\ UNCHANGED <<text_in, max_len, short1, short2>>
    /\ UNCHANGED nonTextVars

TextNext == Shorten \/ ShortenAgain \/ FixNameCasing


(***************************************************************************)
(* generate_html run on bounded Org Models                                 *)
(***************************************************************************)
MaxRenderAgents == 2
MaxLifecycleLen == 8

\* the agents an Org Model can hold, with the fields build_from_plugin gives them
RenderAgents ==
    << [name |-> <<"Q","A">>, model |-> <<"s","o","n","n","e","t">>,
        skills |-> << <<"r","e","v","i","e","w">>, <<"b","u","i","l","d">> >>, knowledge_skills |-> << <<"t","e","s","t","i","n","g">> >>,
        mcps |-> <<>>, cli_tools |-> << <<"G","i","t","H","u","b">> >>,
        description |-> <<"T","e","s","t","s"," ","\"","i","t","\""," ","<","/","s","c","r","i","p","t",">">>,
        detail_description |-> <<"T","e","s","t","s"," ","\"","i","t","\""," ","<","/","s","c","r","i","p","t",">","\n","a","n","d"," ","a","\\","b">>,
        markdown |-> <<"#"," ","Q","A">>],
       [name |-> <<"E","n","g","i","n","e","e","r">>, model |-> <<>>,
        skills |-> << <<"b","u","i","l","d">>, <<"d","i","s","c","o","v","e","r">> >>, knowledge_skills |-> <<>>,
        mcps |-> << <<"C","h","r","o","m","e"," ","D","e","v","T","o","o","l","s">> >>, cli_tools |-> << <<"G","i","t","H","u","b">> >>,
        description |-> <<"B","u","i","l","d","s">>, detail_description |-> <<>>,
        markdown |-> <<>>],
       [name |-> <<"Z","e","d">>, model |-> <<"i","n","h","e","r","i","t">>,
        skills |-> << <<"s","h","i","p">> >>, knowledge_skills |-> <<>>,
        mcps |-> <<>>, cli_tools |-> <<>>,
        description |-> <<>>, detail_description |-> <<>>,
        markdown |-> <<>>],
       [name |-> <<"C","o","n","t","e","n","t"," ","S","t","r","a","t","e","g","i","s","t">>, model |-> <<"o","p","u","s">>,
        skills |-> << <<"s","p","e","c">>, <<"d","i","s","c","o","v","e","r">> >>, knowledge_skills |-> <<>>,
        mcps |-> <<>>, cli_tools |-> <<>>,
        description |-> <<"W","r","i","t","e","s"," ","<","\\","/"," ","c","o","p","y">>, detail_description |-> <<"W","r","i","t","e","s"," ","<","\\","/"," ","c","o","p","y">>,
        markdown |-> <<>>],
       [name |-> <<"A","n","n"," ","L","e","e">>, model |-> <<"h","a","i","k","u">>,
        skills |-> <<>>, knowledge_skills |-> <<>>,
        mcps |-> <<>>, cli_tools |-> <<>>,
        description |-> <<"H","e","l","p","s">>, detail_description |-> <<"H","e","l","p","s">>,
        markdown |-> <<>>],
       [name |-> <<"c","o","n","t","e","n","t","-","s","t","r","a","t","e","g","i","s","t">>, model |-> Inherit,
        skills |-> << <<"b","u","i","l","d">> >>, knowledge_skills |-> <<>>,
        mcps |-> <<>>, cli_tools |-> <<>>, description |-> <<>>] >>

\* the steps a lifecycle is taken from
LifecyclePool ==
    << <<"d","i","s","c","o","v","e","r">>, <<"s","p","e","c">>, <<"d","e","s","i","g","n">>, <<"b","u","i","l","d">>, <<"r","e","v","i","e","w">>, <<"s","h","i","p">>,
       <<"r","e","l","e","a","s","e","-","n","o","t","e","s">>, <<"l","a","u","n","c","h">> >>

\* the lifecycle of n steps
LifecycleOf(n) == [i \in 1..n |-> LifecyclePool[((i - 1) % Len(LifecyclePool)) + 1]]

RenderSkills ==
    << [name |-> <<"b","u","i","l","d">>, description |-> <<"B","u","i","l","d"," ","i","t">>,
          detail_description |-> <<"B","u","i","l","d"," ","\"","i","t","\""," ","w","e","l","l">>, markdown |-> <<>>],
         [name |-> <<"s","t","o","r","y">>, description |-> <<"T","e","l","l"," ","i","t">>,
          detail_description |-> <<>>, markdown |-> <<>>],
         [name |-> <<"d","i","s","c","o","v","e","r">>, description |-> <<>>,
          detail_description |-> <<>>, markdown |-> <<>>] >>

RenderTeams ==
    << [name |-> <<"B","u","i","l","d"," ","&"," ","Q","A">>, members |-> << <<"Q","A">>, <<"E","n","g","i","n","e","e","r">> >>],
         [name |-> <<"L","a","u","n","c","h"," ","<","/","t","e","a","m",">">>, description |-> <<"S","h","i","p","s">>,
          members |-> << <<"Z","e","d">>, <<"G","h","o","s","t">> >>] >>

RenderAlternatePaths ==
    << [name |-> <<"s","p","r","i","n","t">>, description |-> <<"B","a","t","c","h","-","e","x","e","c","u","t","e"," ","m","u","l","t","i","p","l","e"," ","t","i","c","k","e","t","s"," ","i","n"," ","p","a","r","a","l","l","e","l">>,
        replaces |-> << <<"b","u","i","l","d">> >>],
       [name |-> <<"k","i","c","k","o","f","f">>, description |-> <<"T","e","a","m"," ","m","e","e","t","i","n","g"," ","U+2014"," ","u","s","e"," ","a","t"," ","a","n","y"," ","p","o","i","n","t">>,
        type |-> <<"a","n","y","t","i","m","e">>],
       [name |-> <<"s","t","a","n","d","u","p">>, description |-> <<>>, type |-> <<"a","n","y","t","i","m","e">>] >>

RenderUtilitySkills ==
    << [name |-> <<"h","e","l","p">>, description |-> <<>>, agents |-> <<>>],
       [name |-> <<"k","i","c","k","o","f","f">>, description |-> <<"M","e","e","t">>, agents |-> << <<"E","n","g","i","n","e","e","r">> >>],
       [name |-> <<"s","p","r","i","n","t">>, description |-> <<"B","a","t","c","h">>,
        agents |-> << <<"E","n","g","i","n","e","e","r">>, <<"C","o","n","t","e","n","t"," ","S","t","r","a","t","e","g","i","s","t">> >>],
       [name |-> <<"d","e","p","l","o","y">>, description |-> <<>>, agents |-> <<>>] >>

\* the lists of distinct agents of at most MaxRenderAgents agents
RenderAgentLists ==
    {[k \in DOMAIN f |-> RenderAgents[f[k]]] :
        f \in {g \in UNION {[1..m -> 1..Len(RenderAgents)] : m \in 0..MaxRenderAgents} :
                    \A i, j \in DOMAIN g : i # j => g[i] # g[j]}}

\* the skills, teams, alternate paths and utility skills that go together: an Org
\* Model of build_from_cli (no utility_skills key), and two of build_from_plugin
RenderVariants ==
    { [skills |-> <<>>, teams |-> <<>>, alternate_paths |-> <<>>],
      [skills |-> RenderSkills, teams |-> RenderTeams, alternate_paths |-> RenderAlternatePaths,
       utility_skills |-> <<>>],
      [skills |-> RenderSkills, teams |-> SubSeq(RenderTeams, 1, 1),
       alternate_paths |-> RenderAlternatePaths, utility_skills |-> RenderUtilitySkills] }

\* the Org Models rendered
RenderConfigs ==
    {[k \in {"name", "agents", "lifecycle"} \cup DOMAIN v |->
        IF k = "name" THEN <<"M","y"," ","A","I"," ","O","r","g">>
        ELSE IF k = "agents" THEN a
        ELSE IF k = "lifecycle" THEN LifecycleOf(n)
        ELSE v[k]] :
        a \in RenderAgentLists, v \in RenderVariants, n \in 0..MaxLifecycleLen}

\* config.get(key, [])
config_get(key) == field(config, key, <<>>)

\* color_map = assign_agent_colors(agents)
AssignAgentColors ==
    /\ rpc = "start"
    /\ color_map' = assign_agent_colors(config_get("agents"))
    /\ rpc' = "lifecycle"
    /\ UNCHANGED <<config, lifecycle_steps, sprint_alt, agent_data, vp_cards, team_data,
                   detail_data, payload>>
    /\ UNCHANGED nonRenderVars

\* lifecycle_steps, sprint_alt = build_lifecycle_data(...)
BuildLifecycleData ==
    /\ rpc = "lifecycle"
    /\ lifecycle_steps' = lifecycle_steps_of(config_get("lifecycle"), config_get("agents"),
                                             config_get("skills"), color_map)
    /\ sprint_alt' = sprint_alt_of(config_get("alternate_paths"))
    /\ rpc' = "agents"
    /\ UNCHANGED <<config, color_map, agent_data, vp_cards, team_data, detail_data, payload>>
    /\ UNCHANGED nonRenderVars

\* the loop that fills agent_data, and its sort
BuildAgentData ==
    /\ rpc = "agents"
    /\ agent_data' = agent_data_of(config_get("agents"), color_map)
    /\ rpc' = "cards"
    /\ UNCHANGED <<config, color_map, lifecycle_steps, sprint_alt, vp_cards, team_data,
                   detail_data, payload>>
    /\ UNCHANGED nonRenderVars

\* the cards, and their sort
BuildVpCards ==
    /\ rpc = "cards"
    /\ vp_cards' = vp_cards_of(config_get("utility_skills"), config_get("alternate_paths"),
                               config_get("skills"))
    /\ rpc' = "teams"
    /\ UNCHANGED <<config, color_map, lifecycle_steps, sprint_alt, agent_data, team_data,
                   detail_data, payload>>
    /\ UNCHANGED nonRenderVars

BuildTeamData ==
    /\ rpc = "teams"
    /\ team_data' = team_data_of(config_get("teams"), color_map)
    /\ rpc' = "detail"
    /\ UNCHANGED <<config, color_map, lifecycle_steps, sprint_alt, agent_data, vp_cards,
                   detail_data, payload>>
    /\ UNCHANGED nonRenderVars

BuildDetailData ==
    /\ rpc = "detail"
    /\ detail_data' = detail_data_of(config_get("agents"), config_get("skills"),
                                     config_get("teams"), lifecycle_steps, color_map)
    /\ rpc' = "serialize"
    /\ UNCHANGED <<config, color_map, lifecycle_steps, sprint_alt, agent_data, vp_cards,
                   team_data, payload>>
    /\ UNCHANGED nonRenderVars

\* the eight safe_json calls, whose results the page holds
Serialize ==
    /\ rpc = "serialize"
    /\ payload' = [AGENTS |-> agents_json(agent_data),
                   LIFECYCLE |-> lifecycle_json(lifecycle_steps),
                   PHASES |-> phases_json,
                   VP_CARDS |-> vp_json(vp_cards),
                   TEAMS |-> teams_json(team_data),
                   DETAIL_DATA |-> detail_json(detail_data),
                   SPRINT |-> sprint_json(sprint_alt),
                   COLOR_MAP |-> color_map_json(color_map)]
    /\ rpc' = "done"
    /\ UNCHANGED <<config, color_map, lifecycle_steps, sprint_alt, agent_data, vp_cards,
                   team_data, detail_data>>
    /\ UNCHANGED nonRenderVars

RenderNext ==
    \/ AssignAgentColors
    \/ BuildLifecycleData
    \/ BuildAgentData
    \/ BuildVpCards
    \/ BuildTeamData
    \/ BuildDetailData
    \/ Serialize

(***************************************************************************)
(* assign_agent_colors called on agent lists longer than the palette       *)
(***************************************************************************)
MaxColorAgents == 11

\* agents with a well-known name, "Content" and "Content Strategist" sharing a color
WellKnownAgents ==
    << [name |-> <<"E","n","g","i","n","e","e","r">>], [name |-> <<"Q","A">>], [name |-> <<"C","o","n","t","e","n","t">>],
       [name |-> <<"C","o","n","t","e","n","t"," ","S","t","r","a","t","e","g","i","s","t">>] >>

\* n agents with names that are not well-known: Role A, Role B, ...
OtherAgents(n) == [i \in 1..n |-> [name |-> <<"R","o","l","e"," ">> \o <<UpperChars[i]>>]]

\* the items of a list at the places of a set, in the list's order
Picked(list, places) == SelectSeq([i \in 1..Len(list) |-> IF i \in places THEN <<list[i]>> ELSE <<>>],
                                  LAMBDA x : x # <<>>)
PickedAgents(places) ==
    [i \in 1..Len(Picked(WellKnownAgents, places)) |-> Picked(WellKnownAgents, places)[i][1]]

\* the agent lists: some well-known agents before or after 0..MaxColorAgents others
ColorAgentLists ==
    UNION {{PickedAgents(places) \o OtherAgents(n), OtherAgents(n) \o PickedAgents(places)} :
            places \in SUBSET (1..Len(WellKnownAgents)), n \in 0..MaxColorAgents}

\* assign_agent_colors(agents)
ColorAgents ==
    /\ rpc = "colors"
    /\ color_map' = assign_agent_colors(config_get("agents"))
    /\ rpc' = "colored"
    /\ UNCHANGED <<config, lifecycle_steps, sprint_alt, agent_data, vp_cards, team_data,
                   detail_data, payload>>
    /\ UNCHANGED nonRenderVars

ColorsNext == ColorAgents

(***************************************************************************)
(* build_from_plugin run on bounded plugin directories                     *)
(***************************************************************************)
MaxAgentFiles == 3
MaxMentions == 2


\* agents/*.md by path: an agent named by its frontmatter, one with a "When
\* Delegated To" line, one named by its file, and two observers
AgentFiles ==
    << [stem |-> <<"c","o","n","t","e","n","t","-","s","t","r","a","t","e","g","i","s","t">>,
        text |-> <<"-","-","-","\n","n","a","m","e",":"," ","c","o","n","t","e","n","t","-","s","t","r","a","t","e","g","i","s","t","\n","d","e","s","c","r","i","p","t","i","o","n",":"," ","C","o","n","t","e","n","t"," ","s","t","r","a","t","e","g","i","s","t"," ","s","p","e","c","i","a","l","i","z","i","n","g"," ","i","n"," ","b","l","o","g"," ","p","o","s","t","s",","," ","s","o","c","i","a","l"," ","m","e","d","i","a",","," ","a","n","d"," ","d","o","c","s","\n","s","k","i","l","l","s",":"," ","w","r","i","t","i","n","g",","," ","s","e","o","\n","-","-","-","\n","#"," ","C","o","n","t","e","n","t","\n">>],
       [stem |-> <<"d","e","s","i","g","n","e","r">>,
        text |-> <<"-","-","-","\n","n","a","m","e",":"," ","d","e","s","i","g","n","e","r","\n","d","e","s","c","r","i","p","t","i","o","n",":"," ","U","I"," ","d","e","s","i","g","n","\n","m","o","d","e","l",":"," ","o","p","u","s","\n","-","-","-","\n","#","#"," ","W","h","e","n"," ","D","e","l","e","g","a","t","e","d"," ","T","o"," ","/","b","u","i","l","d"," ","o","r"," ","U+0060","s","h","i","p","U+0060","\n","A","l","s","o"," ","/","d","i","s","c","o","v","e","r","\n">>],
       [stem |-> <<"e","n","g","i","n","e","e","r">>,
        text |-> <<"-","-","-","\n","m","o","d","e","l",":"," ","s","o","n","n","e","t","\n","s","k","i","l","l","s",":","\n"," "," ","-"," ","b","u","i","l","d","\n","-","-","-","\n","B","u","i","l","d","s"," ","t","h","i","n","g","s",".","\n","#","#"," ","W","h","e","n"," ","D","e","l","e","g","a","t","e","d"," ","T","o","\n","/","s","h","i","p","\n">>],
       [stem |-> <<"o","b","s","e","r","v","e","r">>,
        text |-> <<"W","a","t","c","h","e","s"," ","@","e","n","g","i","n","e","e","r",".","\n","#","#"," ","W","h","e","n"," ","D","e","l","e","g","a","t","e","d"," ","T","o"," ","/","b","u","i","l","d","\n">>],
       [stem |-> <<"q","a">>,
        text |-> <<"-","-","-","\n","n","a","m","e",":"," ","q","a","\n","-","-","-","\n">>],
       [stem |-> <<"w","a","t","c","h","e","r">>,
        text |-> <<"-","-","-","\n","n","a","m","e",":"," ","O","b","S","e","r","v","e","r","\n","d","e","s","c","r","i","p","t","i","o","n",":"," ","L","o","g","s"," ","d","e","c","i","s","i","o","n","s","\n","-","-","-","\n","#","#"," ","W","h","e","n"," ","D","e","l","e","g","a","t","e","d"," ","T","o"," ","/","b","u","i","l","d","\n">>] >>

\* sorted(glob(agents/*.md)): the files of the directory in the order of their paths
agent_files(dir) == [k \in 1..Cardinality(dir.files) |-> AgentFiles[Nth(dir.files, k)]]

\* the agents directories: not there, or with at most MaxAgentFiles of the files
AgentDirs ==
    {[exists |-> FALSE, files |-> {}]} \cup
    {[exists |-> TRUE, files |-> S] :
        S \in {T \in SUBSET (1..Len(AgentFiles)) : Cardinality(T) <= MaxAgentFiles}}

\* k mentions of the engineer
RECURSIVE Mentions(_)
Mentions(k) == IF k = 0 THEN <<>> ELSE <<"A","s","k"," ","@","e","n","g","i","n","e","e","r","."," ">> \o Mentions(k - 1)

\* sorted(glob(skills/*)): the directories by path, the build skill mentioning the
\* engineer dir.mentions times
skill_dirs(dir) ==
    << [dir |-> <<"b","u","i","l","d">>, has_skill_md |-> TRUE,
        text |-> <<"-","-","-","\n","n","a","m","e",":"," ","b","u","i","l","d","\n","d","e","s","c","r","i","p","t","i","o","n",":"," ","B","u","i","l","d"," ","t","h","e"," ","f","e","a","t","u","r","e","\n","-","-","-","\n">>
                 \o Mentions(dir.mentions) \o <<"T","h","e","n"," ","@","O","b","s","e","r","v","e","r"," ","a","n","d"," ","@","c","o","n","t","e","n","t","-","s","t","r","a","t","e","g","i","s","t",".","\n">>],
       [dir |-> <<"d","i","s","c","o","v","e","r">>, has_skill_md |-> TRUE,
        text |-> <<"@","q","a"," ","@","r","e","s","e","a","r","c","h","e","r"," ","@","e","n","g","i","n","e","e","r","-","x">>],
       [dir |-> <<"k","i","c","k","o","f","f">>, has_skill_md |-> TRUE,
        text |-> <<"-","-","-","\n","n","a","m","e",":"," ","k","i","c","k","o","f","f","\n","-","-","-","\n","@","e","n","g","i","n","e","e","r"," ","@","o","b","s","e","r","v","e","r"," ","@","q","a"," ","@","e","n","g","i","n","e","e","r">>],
       [dir |-> <<"n","o","t","e","s">>, has_skill_md |-> FALSE, text |-> <<>>],
       [dir |-> <<"s","h","i","p">>, has_skill_md |-> TRUE,
        text |-> <<"-","-","-","\n","n","a","m","e",":"," ","s","h","i","p","\n","-","-","-","\n","@","Q","A">>] >>

\* the skills directories: not there, or with 1..MaxMentions mentions
SkillDirs ==
    {[exists |-> FALSE, mentions |-> 0]} \cup
    {[exists |-> TRUE, mentions |-> k] : k \in 1..MaxMentions}

\* CLAUDE.md: with a lifecycle chain, teams, tool hints and CLI tools, without, and with
\* a chain that names a meta-skill and a team none of whose members is an agent
NotesTexts ==
    << <<"#"," ","O","r","g","\n","/","s","o","l","o",":","d","i","s","c","o","v","e","r"," ","U+2192"," ","/","s","o","l","o",":","b","u","i","l","d"," ","U+2192"," ","/","s","o","l","o",":","s","h","i","p","\n","#","#"," ","T","e","a","m","s","\n","-"," ","*","*","B","u","i","l","d"," ","&"," ","Q","A","*","*",":"," ","@","e","n","g","i","n","e","e","r"," ","+"," ","@","q","a","\n","-"," ","*","*","L","a","u","n","c","h","*","*",":"," ","@","c","o","n","t","e","n","t","-","s","t","r","a","t","e","g","i","s","t"," ","+"," ","@","o","b","s","e","r","v","e","r"," ","+"," ","@","g","h","o","s","t","\n","-"," ","*","*","G","h","o","s","t","s","*","*",":"," ","@","g","h","o","s","t"," ","+"," ","@","O","b","s","e","r","v","e","r","\n","#","#"," ","T","o","o","l"," ","A","c","c","e","s","s","\n","-"," ","C","h","r","o","m","e"," ","D","e","v","T","o","o","l","s",":"," ","E","n","g","i","n","e","e","r",","," ","D","e","s","i","g","n","e","r"," ","a","n","d"," ","O","b","s","e","r","v","e","r","\n","-"," ","*","*","c","o","n","t","e","x","t","7","*","*"," ","f","o","r"," ","Q","A","\n","-"," ","c","o","n","t","e","x","t","7"," ","+"," ","C","h","r","o","m","e"," ","D","e","v","T","o","o","l","s",":"," ","Q","A",","," ","E","n","g","i","n","e","e","r","\n","#","#","#"," ","C","L","I"," ","T","o","o","l","s","\n","-"," ","*","*","G","i","t","H","u","b"," ","C","L","I"," ","(","g","h",")","*","*",":"," ","p","u","l","l"," ","r","e","q","u","e","s","t","s","\n","-"," ","*","*","v","e","r","c","e","l","*","*","\n","#"," ","E","n","d","\n">>,
       <<"N","o","t","e","s"," ","a","b","o","u","t"," ","@","e","n","g","i","n","e","e","r"," ","a","n","d"," ","t","h","e"," ","o","b","s","e","r","v","e","r",".","\n">>,
       <<"/","s","o","l","o",":","d","i","s","c","o","v","e","r"," ","U+2192"," ","/","s","o","l","o",":","s","p","r","i","n","t"," ","U+2192"," ","/","s","o","l","o",":","s","h","i","p","\n","-"," ","*","*","G","h","o","s","t","s","*","*",":"," ","@","g","h","o","s","t"," ","+"," ","@","n","o","b","o","d","y","\n">> >>

\* the text of the notes
notes_text(file) == NotesTexts[file.variant]

NotesFiles ==
    {[exists |-> FALSE, variant |-> 0]} \cup
    {[exists |-> TRUE, variant |-> v] : v \in 1..Len(NotesTexts)}

\* .claude-plugin/plugin.json, with a name
ManifestJsons == << [name |-> <<"s","o","l","o","-","p","r","e","n","e","u","r">>] >>

\* json.load of the manifest
manifest_json(file) == ManifestJsons[file.variant]

ManifestFiles ==
    {[exists |-> FALSE, variant |-> 0]} \cup
    {[exists |-> TRUE, variant |-> v] : v \in 1..Len(ManifestJsons)}

\* mcpServers of .mcp.json
McpServers ==
    << [name |-> <<"c","h","r","o","m","e","-","d","e","v","t","o","o","l","s">>,
        cfg |-> [command |-> <<"n","p","x">>, args |-> << <<"-","y">>, <<"c","h","r","o","m","e","-","d","e","v","t","o","o","l","s","-","m","c","p">>, <<"-","-","h","e","a","d","l","e","s","s">> >>]],
       [name |-> <<"c","o","n","t","e","x","t","7">>, cfg |-> <<>>] >>

mcp_servers(file) == McpServers

McpFiles == {[exists |-> FALSE], [exists |-> TRUE]}

\* the plugin directories: each of the five inputs there or not
PluginDirs ==
    [manifest : ManifestFiles, notes : NotesFiles, agents : AgentDirs, skills : SkillDirs,
     mcp : McpFiles]

\* os.path.isfile / os.path.isdir, and a test that takes every path as there
exists_unchecked(path) == TRUE
isfile(path) == path.exists
isdir(path) == path.exists

\* "Read plugin name from plugin.json": open() of a file that is not there raises
ReadManifest ==
    /\ ppc = "manifest"
    /\ IF ~isfile(plugin_dir.manifest)
       THEN org_name' = org_name /\ ppc' = "notes"
       ELSE IF ~plugin_dir.manifest.exists
       THEN org_name' = org_name /\ ppc' = "error"
       ELSE org_name' = manifest_name(manifest_json(plugin_dir.manifest)) /\ ppc' = "notes"
    /\ UNCHANGED <<plugin_dir, claude_content, agents, skills, skill_bodies, mcps,
                   cli_tools, lifecycle, teams, alternate_paths, utility_skills>>
    /\ UNCHANGED nonPluginVars

\* "Read CLAUDE.md for lifecycle and team hints"
ReadNotes ==
    /\ ppc = "notes"
    /\ IF ~isfile(plugin_dir.notes)
       THEN claude_content' = claude_content /\ ppc' = "agents"
       ELSE IF ~plugin_dir.notes.exists
       THEN claude_content' = claude_content /\ ppc' = "error"
       ELSE claude_content' = notes_text(plugin_dir.notes) /\ ppc' = "agents"
    /\ UNCHANGED <<plugin_dir, org_name, agents, skills, skill_bodies, mcps, cli_tools,
                   lifecycle, teams, alternate_paths, utility_skills>>
    /\ UNCHANGED nonPluginVars

\* "Discover agents from agents/*.md": glob of a directory that is not there is empty
DiscoverAgents ==
    /\ ppc = "agents"
    /\ agents' = IF isdir(plugin_dir.agents) /\ plugin_dir.agents.exists
                 THEN discover_agents(agent_files(plugin_dir.agents))
                 ELSE <<>>
    /\ ppc' = "skills"
    /\ UNCHANGED <<plugin_dir, org_name, claude_content, skills, skill_bodies, mcps,
                   cli_tools, lifecycle, teams, alternate_paths, utility_skills>>
    /\ UNCHANGED nonPluginVars

\* "Discover skills from skills/*/SKILL.md"
DiscoverSkills ==
    /\ ppc = "skills"
    /\ skills' = IF isdir(plugin_dir.skills) /\ plugin_dir.skills.exists
                 THEN discover_skills(skill_dirs(plugin_dir.skills))
                 ELSE <<>>
    /\ skill_bodies' = IF isdir(plugin_dir.skills) /\ plugin_dir.skills.exists
                       THEN discover_skill_bodies(skill_dirs(plugin_dir.skills), <<>>)
                       ELSE <<>>
    /\ ppc' = "forward"
    /\ UNCHANGED <<plugin_dir, org_name, claude_content, agents, mcps, cli_tools,
                   lifecycle, teams, alternate_paths, utility_skills>>
    /\ UNCHANGED nonPluginVars

\* "Forward: scan skill bodies for @agent references (skip meta-skills)"
ForwardInference ==
    /\ ppc = "forward"
    /\ agents' = forward_inference(agents, skill_bodies)
    /\ ppc' = "reverse"
    /\ UNCHANGED <<plugin_dir, org_name, claude_content, skills, skill_bodies, mcps,
                   cli_tools, lifecycle, teams, alternate_paths, utility_skills>>
    /\ UNCHANGED nonPluginVars

\* "Reverse: scan agent When Delegated To sections for /skill references": the set
\* skill_names is iterated in an order the run does not fix
ReverseInference ==
    /\ ppc = "reverse"
    /\ LET sections == delegated_sections(agents)
       IN  \E order \in orders_of(skill_names_of(skills)) :
                agents' = reverse_inference(agents, sections, order)
    /\ ppc' = "mcps"
    /\ UNCHANGED <<plugin_dir, org_name, claude_content, skills, skill_bodies, mcps,
                   cli_tools, lifecycle, teams, alternate_paths, utility_skills>>
    /\ UNCHANGED nonPluginVars

\* "Discover MCPs from .mcp.json"
DiscoverMcps ==
    /\ ppc = "mcps"
    /\ IF ~isfile(plugin_dir.mcp)
       THEN mcps' = <<>> /\ ppc' = "cli"
       ELSE IF ~plugin_dir.mcp.exists
       THEN mcps' = <<>> /\ ppc' = "error"
       ELSE mcps' = discover_mcps(mcp_servers(plugin_dir.mcp)) /\ ppc' = "cli"
    /\ UNCHANGED <<plugin_dir, org_name, claude_content, agents, skills, skill_bodies,
                   cli_tools, lifecycle, teams, alternate_paths, utility_skills>>
    /\ UNCHANGED nonPluginVars

\* "Discover CLI tools from CLAUDE.md"
DiscoverCliTools ==
    /\ ppc = "cli"
    /\ cli_tools' = discover_cli_tools(claude_content)
    /\ ppc' = "assign"
    /\ UNCHANGED <<plugin_dir, org_name, claude_content, agents, skills, skill_bodies,
                   mcps, lifecycle, teams, alternate_paths, utility_skills>>
    /\ UNCHANGED nonPluginVars

\* "Assign MCPs to agents based on CLAUDE.md per-bullet hints"
AssignMcps ==
    /\ ppc = "assign"
    /\ agents' = assign_mcps(agents, mcps, claude_content)
    /\ ppc' = "fallback"
    /\ UNCHANGED <<plugin_dir, org_name, claude_content, skills, skill_bodies, mcps,
                   cli_tools, lifecycle, teams, alternate_paths, utility_skills>>
    /\ UNCHANGED nonPluginVars

\* "Fallback: role-based heuristics for agents with no MCPs assigned"
FallbackMcps ==
    /\ ppc = "fallback"
    /\ agents' = fallback_mcps(agents, mcps)
    /\ ppc' = "cli_assign"
    /\ UNCHANGED <<plugin_dir, org_name, claude_content, skills, skill_bodies, mcps,
                   cli_tools, lifecycle, teams, alternate_paths, utility_skills>>
    /\ UNCHANGED nonPluginVars

\* "Assign CLI tools to agents"
AssignCliTools ==
    /\ ppc = "cli_assign"
    /\ agents' = assign_cli_tools(agents, cli_tools)
    /\ ppc' = "lifecycle"
    /\ UNCHANGED <<plugin_dir, org_name, claude_content, skills, skill_bodies, mcps,
                   cli_tools, lifecycle, teams, alternate_paths, utility_skills>>
    /\ UNCHANGED nonPluginVars

\* "Parse lifecycle from CLAUDE.md"
ParseLifecycle ==
    /\ ppc = "lifecycle"
    /\ lifecycle' = parse_lifecycle(claude_content, skill_names_of(skills))
    /\ ppc' = "teams"
    /\ UNCHANGED <<plugin_dir, org_name, claude_content, agents, skills, skill_bodies,
                   mcps, cli_tools, teams, alternate_paths, utility_skills>>
    /\ UNCHANGED nonPluginVars

\* "Build teams"
BuildTeams ==
    /\ ppc = "teams"
    /\ teams' = build_teams(agents, claude_content)
    /\ ppc' = "alternate"
    /\ UNCHANGED <<plugin_dir, org_name, claude_content, agents, skills, skill_bodies,
                   mcps, cli_tools, lifecycle, alternate_paths, utility_skills>>
    /\ UNCHANGED nonPluginVars

\* "Build alternate paths from meta-skills that exist"
BuildAlternatePaths ==
    /\ ppc = "alternate"
    /\ alternate_paths' = build_alternate_paths(skills)
    /\ ppc' = "utility"
    /\ UNCHANGED <<plugin_dir, org_name, claude_content, agents, skills, skill_bodies,
                   mcps, cli_tools, lifecycle, teams, utility_skills>>
    /\ UNCHANGED nonPluginVars

\* "Build utility skills list", and the return of the Org Model
BuildUtilitySkills ==
    /\ ppc = "utility"
    /\ utility_skills' = build_utility_skills(agents, skills, skill_bodies)
    /\ ppc' = "done"
    /\ UNCHANGED <<plugin_dir, org_name, claude_content, agents, skills, skill_bodies,
                   mcps, cli_tools, lifecycle, teams, alternate_paths>>
    /\ UNCHANGED nonPluginVars

PluginNext ==
    \/ ReadManifest
    \/ ReadNotes
    \/ DiscoverAgents
    \/ DiscoverSkills
    \/ ForwardInference
    \/ ReverseInference
    \/ DiscoverMcps
    \/ DiscoverCliTools
    \/ AssignMcps
    \/ FallbackMcps
    \/ AssignCliTools
    \/ ParseLifecycle
    \/ BuildTeams
    \/ BuildAlternatePaths
    \/ BuildUtilitySkills

\* the Org Model build_from_plugin returns
org_model ==
    [name |-> org_name, agents |-> agents, skills |-> skills, mcps |-> mcps,
     cli_tools |-> cli_tools, teams |-> teams, lifecycle |-> lifecycle,
     alternate_paths |-> alternate_paths, utility_skills |-> utility_skills]

(***************************************************************************)
(* main: the three ways to an Org Model, the rendering and the write       *)
(***************************************************************************)
\* generate_html raises on a document that is no object (config.get), on an agent, a
\* skill or a team without "name", on a utility skill without "name", and, when
\* there are no utility skills, on an alternate path without "name"
is_object(doc) == doc.shape = "object"
all_named(items) == \A k \in 1..Len(items) : "name" \in DOMAIN items[k]

generate_html_raises(doc) ==
    \/ ~is_object(doc)
    \/ ~all_named(field(doc.value, "agents", <<>>))
    \/ ~all_named(field(doc.value, "skills", <<>>))
    \/ ~all_named(field(doc.value, "utility_skills", <<>>))
    \/ /\ Len(field(doc.value, "utility_skills", <<>>)) = 0
       /\ ~all_named(field(doc.value, "alternate_paths", <<>>))
    \/ ~all_named(field(doc.value, "teams", <<>>))

\* the data of the page, given the colors and the lifecycle steps
page_with(config_, cmap, steps) ==
    [AGENTS |-> agents_json(agent_data_of(field(config_, "agents", <<>>), cmap)),
     LIFECYCLE |-> lifecycle_json(steps),
     PHASES |-> phases_json,
     VP_CARDS |-> vp_json(vp_cards_of(field(config_, "utility_skills", <<>>),
                                      field(config_, "alternate_paths", <<>>),
                                      field(config_, "skills", <<>>))),
     TEAMS |-> teams_json(team_data_of(field(config_, "teams", <<>>), cmap)),
     DETAIL_DATA |-> detail_json(detail_data_of(field(config_, "agents", <<>>),
                                                field(config_, "skills", <<>>),
                                                field(config_, "teams", <<>>), steps, cmap)),
     SPRINT |-> sprint_json(sprint_alt_of(field(config_, "alternate_paths", <<>>))),
     COLOR_MAP |-> color_map_json(cmap)]

\* the data of the page, given the colors
page_of(config_, cmap) ==
    page_with(config_, cmap,
              lifecycle_steps_of(field(config_, "lifecycle", <<>>), field(config_, "agents", <<>>),
                                 field(config_, "skills", <<>>), cmap))

\* generate_html(config): the data of the page it returns
generate_html(config_) == page_of(config_, assign_agent_colors(field(config_, "agents", <<>>)))

\* what build_from_plugin reads: the notes, the agents, the skills with their bodies
\* and the tool integrations, each empty when its input is not there
notes_of(dir) == IF isfile(dir.notes) THEN notes_text(dir.notes) ELSE <<>>
agents_found(dir) == IF isdir(dir.agents) THEN discover_agents(agent_files(dir.agents)) ELSE <<>>
skills_found(dir) == IF isdir(dir.skills) THEN discover_skills(skill_dirs(dir.skills)) ELSE <<>>
bodies_found(dir) ==
    IF isdir(dir.skills) THEN discover_skill_bodies(skill_dirs(dir.skills), <<>>) ELSE <<>>
mcps_found(dir) == IF isfile(dir.mcp) THEN discover_mcps(mcp_servers(dir.mcp)) ELSE <<>>

\* the reverse inference on the agents the forward inference left
reverse_of(forward, order) == reverse_inference(forward, delegated_sections(forward), order)

\* the Org Model returned, the agents having their skills and tools
org_record(dir, notes, skills_, bodies, mcps_, tools, agents_) ==
    [name |-> IF isfile(dir.manifest) THEN manifest_name(manifest_json(dir.manifest))
              ELSE DefaultName,
     agents |-> agents_, skills |-> skills_, mcps |-> mcps_, cli_tools |-> tools,
     teams |-> build_teams(agents_, notes),
     lifecycle |-> parse_lifecycle(notes, skill_names_of(skills_)),
     alternate_paths |-> build_alternate_paths(skills_),
     utility_skills |-> build_utility_skills(agents_, skills_, bodies)]

\* the three tool assignments on the agents the inferences left
org_with(dir, notes, skills_, bodies, mcps_, tools, inferred) ==
    org_record(dir, notes, skills_, bodies, mcps_, tools,
               assign_cli_tools(fallback_mcps(assign_mcps(inferred, mcps_, notes), mcps_), tools))

\* the two inferences on the agents found
org_of(dir, order, notes, found, skills_, bodies, mcps_) ==
    org_with(dir, notes, skills_, bodies, mcps_, discover_cli_tools(notes),
             reverse_of(forward_inference(found, bodies), order))

\* build_from_plugin(plugin_dir), the set skill_names iterated in the given order
build_from_plugin(dir, order) ==
    org_of(dir, order, notes_of(dir), agents_found(dir), skills_found(dir), bodies_found(dir),
           mcps_found(dir))

\* the orders in which build_from_plugin can iterate the skill names of a directory
plugin_orders(dir) == orders_of(skill_names_of(skills_found(dir)))

\* a JSON document: an object (a record of its keys) or an array
ObjectDoc(value) == [shape |-> "object", value |-> value]
ArrayDoc == [shape |-> "array", value |-> <<>>]

\* a record without some of its keys, and a list whose first item lost its "name"
without(r, keys) == [k \in (DOMAIN r \ keys) |-> r[k]]
first_unnamed(items) == [k \in 1..Len(items) |-> IF k = 1 THEN without(items[k], {"name"})
                                                  ELSE items[k]]

\* a complete explicit document
FullDocument ==
    [name |-> <<"A","c","m","e">>, agents |-> SubSeq(RenderAgents, 1, 2),
     skills |-> RenderSkills, teams |-> RenderTeams, lifecycle |-> LifecycleOf(3),
     alternate_paths |-> RenderAlternatePaths, utility_skills |-> RenderUtilitySkills]

\* the top-level keys the data model requires
RequiredKeys == {"agents", "skills", "teams", "lifecycle"}

\* the documents with some required keys missing (none missing: the complete one)
DocumentsLacking == {without(FullDocument, keys) : keys \in SUBSET RequiredKeys}

\* the documents one of whose entries has no "name"
DocumentsUnnamed ==
    {[FullDocument EXCEPT ![key] = first_unnamed(FullDocument[key])] :
        key \in {"agents", "skills", "teams", "utility_skills"}} \cup
    {[FullDocument EXCEPT !["alternate_paths"] = first_unnamed(RenderAlternatePaths),
                          !["utility_skills"] = <<>>]}

Documents ==
    {ObjectDoc(d) : d \in DocumentsLacking \cup DocumentsUnnamed} \cup {ArrayDoc}

\* the files --config can name: not there, no JSON, or one of the documents
NoDocument == [shape |-> "none", value |-> <<>>]
ConfigFiles ==
    {[exists |-> FALSE, parses |-> FALSE, document |-> NoDocument],
     [exists |-> TRUE, parses |-> FALSE, document |-> NoDocument]} \cup
    {[exists |-> TRUE, parses |-> TRUE, document |-> d] : d \in Documents}

\* a document that is structurally valid: an object with the required keys, every
\* agent, skill, team, alternate path and utility skill named
structurally_valid(doc) ==
    /\ is_object(doc)
    /\ RequiredKeys \subseteq DOMAIN doc.value
    /\ \A key \in {"agents", "skills", "teams", "alternate_paths", "utility_skills"} :
            all_named(field(doc.value, key, <<>>))
\* the plugin directories main is run on: everything there, or nothing
MainPluginDirs ==
    {d \in PluginDirs :
        /\ d.notes.exists = d.manifest.exists /\ d.notes.variant <= 1
        /\ d.agents.exists = d.manifest.exists /\ d.agents.files \in {{}, {1, 2}}
        /\ d.agents.exists = (d.agents.files # {})
        /\ d.skills.exists = d.manifest.exists /\ d.skills.mentions <= 1
        /\ d.mcp.exists = d.manifest.exists}

\* the number of skills --skills names at most: more than the seven of the lifecycle
MaxCliSkills == 8

\* the texts of --agents, --skills, --mcps and --teams
CliAgentTexts ==
    { <<>>, <<"Q","A",",","E","n","g","i","n","e","e","r">>, <<"Q","A",",",","," ","Z","e","d"," ",",">> }
CliSkillTexts ==
    {join(LifecycleOf(n), <<",">>) : n \in 0..MaxCliSkills} \cup { <<"b","u","i","l","d",","," ",",","s","h","i","p"," ",",">> }
CliMcpTexts ==
    { <<>>, <<"G","i","t","H","u","b",","," ","C","h","r","o","m","e"," ","D","e","v","T","o","o","l","s",",">> }
CliTeamTexts ==
    { <<>>, <<"C","o","r","e",":"," ","Q","A"," ","+"," ","E","n","g","i","n","e","e","r",",","S","o","l","o",",","A",":","B",":","C">> }
CliNames == { <<>>, <<"A","c","m","e">> }

\* the argument lists: --config, --plugin-dir or neither, and an --output path that
\* can be opened for writing or not
NoConfigFile == [given |-> FALSE, exists |-> FALSE, parses |-> FALSE, document |-> NoDocument]
NoPluginDir == [given |-> FALSE, dir |-> [none |-> TRUE]]
NoCli == [name |-> DefaultName, agents |-> <<>>, skills |-> <<>>, mcps |-> <<>>, teams |-> <<>>]

ArgLists ==
    {[config |-> [given |-> TRUE] @@ f, plugin_dir |-> NoPluginDir, cli |-> NoCli,
      output |-> [writable |-> w]] : f \in ConfigFiles, w \in BOOLEAN} \cup
    {[config |-> NoConfigFile, plugin_dir |-> [given |-> TRUE, dir |-> d], cli |-> NoCli,
      output |-> [writable |-> w]] : d \in MainPluginDirs, w \in BOOLEAN} \cup
    {[config |-> NoConfigFile, plugin_dir |-> NoPluginDir,
      cli |-> [name |-> n, agents |-> a, skills |-> s, mcps |-> m, teams |-> t],
      output |-> [writable |-> w]] :
        n \in CliNames, a \in CliAgentTexts, s \in CliSkillTexts, m \in CliMcpTexts,
        t \in CliTeamTexts, w \in BOOLEAN}

\* the file at the output path: as it was before the run, truncated by open(.., "w"),
\* or holding the page; and how often it was opened and written
PreviousFile == [state |-> "previous", opens |-> 0, writes |-> 0]

raise_caught(step) == IF step = "render" THEN "open" ELSE "aborted"

\* an exception nobody catches ends main where it is raised
raise(step) == "aborted"

\* lines 1591-1597: the Org Model from --config, --plugin-dir or the flat arguments
AssembleConfig ==
    /\ mpc = "assemble"
    /\ IF args.config.given
       THEN IF args.config.exists /\ args.config.parses
            THEN main_config' = args.config.document /\ mpc' = "render"
            ELSE main_config' = main_config /\ mpc' = raise("assemble")
       ELSE IF args.plugin_dir.given
            THEN /\ \E order \in plugin_orders(args.plugin_dir.dir) :
                        main_config' = ObjectDoc(build_from_plugin(args.plugin_dir.dir, order))
                 /\ mpc' = "render"
            ELSE /\ main_config' = ObjectDoc(build_from_cli(args.cli))
                 /\ mpc' = "render"
    /\ UNCHANGED <<args, html_content, output_file>>
    /\ UNCHANGED nonMainVars

\* line 1599: html_content = generate_html(config)
Render ==
    /\ mpc = "render"
    /\ IF generate_html_raises(main_config)
       THEN html_content' = html_content /\ mpc' = raise("render")
       ELSE html_content' = generate_html(main_config.value) /\ mpc' = "open"
    /\ UNCHANGED <<args, main_config, output_file>>
    /\ UNCHANGED nonMainVars

\* line 1601: open(args.output, "w") truncates the file, or raises
OpenOutput ==
    /\ mpc = "open"
    /\ IF args.output.writable
       THEN /\ output_file' = [output_file EXCEPT !.state = "truncated", !.opens = @ + 1]
            /\ mpc' = "write"
       ELSE /\ output_file' = output_file
            /\ mpc' = raise("open")
    /\ UNCHANGED <<args, main_config, html_content>>
    /\ UNCHANGED nonMainVars

\* line 1602: f.write(html_content), and the file closed
WriteOutput ==
    /\ mpc = "write"
    /\ output_file' = [output_file EXCEPT !.state = "written", !.writes = @ + 1]
    /\ mpc' = "print"
    /\ UNCHANGED <<args, main_config, html_content>>
    /\ UNCHANGED nonMainVars

\* lines 1604-1605: the two messages
PrintDone ==
    /\ mpc = "print"
    /\ mpc' = "done"
    /\ UNCHANGED <<args, main_config, html_content, output_file>>
    /\ UNCHANGED nonMainVars

MainNext ==
    \/ AssembleConfig
    \/ Render
    \/ OpenOutput
    \/ WriteOutput
    \/ PrintDone

\* no item occurs twice in the list; the set of the list's items
NoDuplicates(list) == \A i, j \in 1..Len(list) : list[i] = list[j] => i = j
ItemsOf(list) == {list[i] : i \in 1..Len(list)}

(***************************************************************************)
(* Claims about the text heuristics (SpecText)                             *)
(***************************************************************************)
\* the text matches neither 'specializing in ...' nor 'for/covering ...'
NoNamedPattern == ~spec_match(text_in) /\ ~for_match(text_in)
Shortened == tpc \in {"shortened", "reshortened"}

\* C5 as stated: for every text that matches neither named pattern and every
\* max_len, shorten_description returns at most max_len characters.
C5_BoundedForEveryMaxLen ==
    (Shortened /\ NoNamedPattern) => Len(short1) <= max_len

\* C5 amended: for every text that matches neither named pattern and every
\* max_len of at least 3 (the length of the ellipsis), shorten_description returns
\* at most max_len characters.
C5_BoundedFromThree ==
    (Shortened /\ NoNamedPattern /\ max_len >= 3) => Len(short1) <= max_len

\* C5 witness: a text longer than the budget, with neither pattern, was cut to
\* exactly max_len characters ending in the ellipsis.
C5_Witness ==
    /\ tpc = "shortened"
    /\ NoNamedPattern
    /\ max_len >= 3
    /\ Len(text_in) > max_len
    /\ Len(short1) = max_len
    /\ substr(short1, max_len - 2, max_len) = <<".",".",".">>

\* C6: whenever the result of shorten_description is within the budget, shortening
\* that result again returns it unchanged.
C6_IdempotentWithinBudget ==
    (tpc = "reshortened" /\ Len(short1) <= max_len) => short2 = short1

\* C6 witness: the first call really shortened a text that was over the budget, and
\* the second call was made on a non-empty result within the budget.
C6_Witness ==
    /\ tpc = "reshortened"
    /\ Len(text_in) > max_len
    /\ short1 # text_in
    /\ Len(short1) > 0
    /\ Len(short1) <= max_len

GithubText == <<"g","i","t","h","u","b">>
UiUxDesignerText == <<"u","i"," ","u","x"," ","d","e","s","i","g","n","e","r">>

\* C7 as stated: fix_name_casing("github") is "GitHub" and
\* fix_name_casing("ui ux designer") is exactly "UI UX Designer".
C7_UiUxDesignerTitleCased ==
    /\ (tpc = "cased" /\ text_in = GithubText) => cased = <<"G","i","t","H","u","b">>
    /\ (tpc = "cased" /\ text_in = UiUxDesignerText) => cased = <<"U","I"," ","U","X"," ","D","e","s","i","g","n","e","r">>

\* C7 amended: fix_name_casing("github") is "GitHub" and
\* fix_name_casing("ui ux designer") is "UI UX designer": each word that is a known
\* abbreviation is replaced by its canonical form wherever it stands, and every
\* other word is left as received.
C7_AbbreviationsWordByWord ==
    tpc = "cased" =>
        /\ text_in = GithubText => cased = <<"G","i","t","H","u","b">>
        /\ text_in = UiUxDesignerText => cased = <<"U","I"," ","U","X"," ","d","e","s","i","g","n","e","r">>
        /\ ~in_abbreviations(lower(text_in)) =>
              LET wordsIn == split_ws(text_in)
                  wordsOut == split_ws(cased)
              IN  /\ Len(wordsOut) = Len(wordsIn)
                  /\ \A k \in 1..Len(wordsIn) :
                        IF in_abbreviations(lower(wordsIn[k]))
                        THEN wordsOut[k] = abbreviation_of(lower(wordsIn[k]))
                        ELSE wordsOut[k] = wordsIn[k]

\* C7 witness: fix_name_casing was called on "ui ux designer" and replaced the two
\* abbreviations.
C7_Witness ==
    /\ tpc = "cased"
    /\ text_in = UiUxDesignerText
    /\ cased = <<"U","I"," ","U","X"," ","d","e","s","i","g","n","e","r">>

\* the comma-separated items of a matched list, stripped
ListedItems(listText) ==
    [k \in 1..Len(split_comma_and(listText)) |-> strip(split_comma_and(listText)[k])]

\* the first two items, each title-cased, joined with " & " and passed through the
\* casing normalization
TitleCasedPair(listText) ==
    fix_name_casing(title(ListedItems(listText)[1]) \o <<" ","&"," ">>
                        \o title(ListedItems(listText)[2]))

\* the list the label is taken from: that of "specializing in", else that of "for" or
\* "covering" unless it begins with an article
LabelList ==
    IF spec_match(text_in) THEN spec_group(text_in) ELSE strip(for_group(text_in))
HasLabelList ==
    \/ spec_match(text_in)
    \/ for_match(text_in) /\ ~starts_with_article(strip(for_group(text_in)))

\* C24: for a text longer than max_len that matches "specializing in X, Y, and Z", or
\* "for/covering X, Y, and Z" with X not beginning with an article, the label is the
\* first two comma-separated items, each title-cased, joined with " & " and passed
\* through the casing normalization
C24_BothItemsTitleCased ==
    (Shortened /\ ~fits(text_in, max_len) /\ HasLabelList) =>
        (Len(ListedItems(LabelList)) >= 2 => short1 = TitleCasedPair(LabelList))

(***************************************************************************)
(* Claims about parse_frontmatter (SpecFrontmatter)                        *)
(***************************************************************************)
\* a line that is "---" and whitespace only
IsDelimiterLine(l) == startswith(l, Dashes) /\ \A j \in 4..Len(l) : IsSpace(l[j])

\* the document has a well-formed header, read off its lines: an opening "---" line,
\* content, and a closing "---" line that is itself ended by a newline
WellFormedHeader(text) ==
    LET ls == split_char(text, "\n")
    IN  /\ Len(ls) >= 4
        /\ IsDelimiterLine(ls[1])
        /\ \E k \in 3..(Len(ls) - 1) : IsDelimiterLine(ls[k])

\* C9: parse_frontmatter never raises, and for a document without a well-formed
\* header it returns the empty mapping and the original text as the body.
C9_NeverRaisesNoHeaderUnchanged ==
    /\ fpc # "raised"
    /\ (fpc = "done" /\ ~WellFormedHeader(content)) =>
            (meta = EmptyDict /\ body = content)
    /\ (fpc = "done") => ~parse_frontmatter(content).raised

\* C9 witness: a document that opens a header with "---" and a key line but never
\* closes it was returned whole with an empty mapping.
C9_Witness ==
    /\ fpc = "done"
    /\ ~WellFormedHeader(content)
    /\ startswith(content, Dashes \o <<"\n">>)
    /\ contains(content, <<"n","a","m","e",":"," ","q","a">>)
    /\ meta = EmptyDict
    /\ body = content

\* a step of the loop, or the final flush, that stores the list in progress
StoresList == fpc = "loop" /\ ~current_list.none /\ current_list'.none

\* the line being read is a new unindented key line, or the header's lines are read
AtKeyLineOrEnd == line_no > Len(raw_lines) \/ is_key_line(raw_lines[line_no])

\* C22: the list in progress of a key is stored in the mapping exactly when a new
\* unindented key line appears or the header ends, never earlier, and under the key
\* the items followed
C22_ListStoredAtKeyLineOrEnd ==
    [][StoresList => (AtKeyLineOrEnd /\ meta'[current_key] = ListVal(current_list.items))]_vars

\* the key and the value written on a key line
KeyOf(line) == strip(split_once(line, ":")[1])
ValueOf(line) == strip(split_once(line, ":")[2])

\* the key lines of the header that name a key
KeyLines == {j \in 1..Len(raw_lines) : is_key_line(raw_lines[j]) /\ KeyOf(raw_lines[j]) # <<>>}

\* the last line up to which the lines after key line j belong to its key
EndOf(j) == IF \E n \in KeyLines : n > j THEN SetMin({n \in KeyLines : n > j}) - 1
            ELSE Len(raw_lines)

\* the items of the bullet lines that follow key line j, in their order
ItemsAfter(j) ==
    LET bullets == SelectSeq([n \in 1..(EndOf(j) - j) |-> raw_lines[j + n]], list_match)
    IN  [n \in 1..Len(bullets) |-> strip(list_item(bullets[n]))]

\* key line j is the last line of the header that names its key
LastOfKey(j) == \A n \in KeyLines : n > j => KeyOf(raw_lines[n]) # KeyOf(raw_lines[j])

\* C30: parse_frontmatter loses no list item and no scalar: the bullet lines that follow
\* a key appear in the key's final list value, blank or other non-key lines between
\* them or not, and a key given a scalar value on its line keeps that value
C30_NoItemAndNoScalarLost ==
    (fpc = "done" /\ header_match(content)) =>
        \A j \in KeyLines :
            LastOfKey(j) =>
                /\ (ValueOf(raw_lines[j]) = <<>> /\ Len(ItemsAfter(j)) > 0) =>
                        (/\ KeyOf(raw_lines[j]) \in DOMAIN meta
                         /\ meta[KeyOf(raw_lines[j])] = ListVal(ItemsAfter(j)))
                /\ (ValueOf(raw_lines[j]) # <<>> /\ ~inline_match(ValueOf(raw_lines[j]))) =>
                        meta[KeyOf(raw_lines[j])] = StrVal(ValueOf(raw_lines[j]))

(***************************************************************************)
(* Claims about the renderer (SpecRender)                                  *)
(***************************************************************************)
\* build_lifecycle_data has returned
LifecycleBuilt == rpc \in {"agents", "cards", "teams", "detail", "serialize", "done"}

\* the phase indices of the steps, in order
PhasesOfSteps == [i \in 1..Len(lifecycle_steps) |-> lifecycle_steps[i].phase]

\* min(3, floor(i / (5/4))): the greatest q with q * 5/4 <= i, at most 3
FloorOfFiveQuarters(i) ==
    LET q == SetMax({k \in 0..i : 5 * k <= 4 * i})
    IN  IF q > 3 THEN 3 ELSE q

\* C4: a lifecycle of exactly 8 steps gets the phase indices [0,0,1,1,2,2,3,3]; in a
\* lifecycle of exactly 5 steps the step at index i gets min(3, floor(i / (5/4))),
\* that is [0,0,1,2,3]
C4_PhasesOfEightAndFiveSteps ==
    LifecycleBuilt =>
        /\ Len(config.lifecycle) = 8 => PhasesOfSteps = <<0, 0, 1, 1, 2, 2, 3, 3>>
        /\ Len(config.lifecycle) = 5 =>
                /\ PhasesOfSteps = <<0, 0, 1, 2, 3>>
                /\ \A i \in 0..4 : lifecycle_steps[i + 1].phase = FloorOfFiveQuarters(i)

C4_Witness ==
    /\ LifecycleBuilt
    /\ Len(config.lifecycle) = 5
    /\ PhasesOfSteps = <<0, 0, 1, 2, 3>>

\* the fields of an agent of the Org Model that the page's agent list can show
OrgAgent(agent) ==
    [name |-> agent.name, model |-> agent.model, description |-> agent.description,
     skills |-> agent.skills, knowledge_skills |-> agent.knowledge_skills,
     mcps |-> agent.mcps, cli_tools |-> agent.cli_tools]

\* the same fields with an empty model read as "inherit"
OrgAgentShown(agent) ==
    [OrgAgent(agent) EXCEPT !.model = IF agent.model = <<>> THEN Inherit ELSE agent.model]

\* the agent of the Org Model an entry of the page's agent list stands for
PayloadAgent(entry) ==
    [name |-> entry.name, model |-> entry.model, description |-> entry.desc,
     skills |-> entry.skills, knowledge_skills |-> entry.knowledge_skills,
     mcps |-> entry.mcps, cli_tools |-> entry.cli_tools]

\* what the script of the page reads from the payload
PayloadAgents ==
    LET read == read_agents(payload.AGENTS)
    IN  [k \in 1..Len(read) |-> PayloadAgent(read[k])]

PayloadLifecycle ==
    LET read == read_lifecycle(payload.LIFECYCLE)
    IN  [k \in 1..Len(read) |-> read[k].skill]

PayloadTeams ==
    LET read == read_teams(payload.TEAMS)
    IN  [k \in 1..Len(read) |->
            [name |-> read[k].name,
             members |-> [i \in 1..Len(read[k].members) |-> read[k].members[i].name]]]

OrgTeams ==
    [k \in 1..Len(config.teams) |->
        [name |-> config.teams[k].name, members |-> config.teams[k].members]]

\* every skill of the Org Model has its detail entry in the payload
PayloadHasSkills ==
    LET read == read_detail(payload.DETAIL_DATA)
    IN  \A k \in 1..Len(config.skills) :
            LET key == <<"s", "k", "i", "l", "l", "-">> \o config.skills[k].name
            IN  key \in DOMAIN read /\ read[key].name = <<"/">> \o config.skills[k].name

\* the place of an agent in the display order: known roles first, in their fixed
\* order, the other roles after them
DisplayRank(agent) ==
    order_key(PREFERRED_AGENT_ORDER, replace_char(agent_id(agent.name), "-", <<" ">>))[1]

PiecesOfDict(r, S, L) ==
    {r[f] : f \in (S \cap DOMAIN r)} \cup
    UNION {{r[f][k] : k \in 1..Len(r[f])} : f \in (L \cap DOMAIN r)}
\* the strings written for a list of dicts
PiecesOfDicts(l, S, L) == UNION {PiecesOfDict(l[k], S, L) : k \in 1..Len(l)}
\* every string of the eight pieces of data embedded in the script block that comes
\* from the Org Model, the keys of the two dicts included; the colors and the phase
\* numbers are entries of the fixed tables
PayloadPieces ==
    PiecesOfDicts(payload.AGENTS, AgentStrings, AgentLists)
    \cup PiecesOfDicts(payload.LIFECYCLE, StepStrings, {})
    \cup UNION {PiecesOfDicts(payload.LIFECYCLE[k].agents, RoleStrings, {}) :
                    k \in 1..Len(payload.LIFECYCLE)}
    \cup PiecesOfDicts(payload.PHASES, {"label"}, {})
    \cup PiecesOfDicts(payload.VP_CARDS, CardStrings, {"agents"})
    \cup PiecesOfDicts(payload.TEAMS, TeamStrings, {})
    \cup UNION {PiecesOfDicts(payload.TEAMS[k].members, MemberStrings, {}) :
                    k \in 1..Len(payload.TEAMS)}
    \cup DOMAIN payload.DETAIL_DATA
    \cup UNION {PiecesOfDict(payload.DETAIL_DATA[key], DetailStrings, DetailLists) :
                    key \in DOMAIN payload.DETAIL_DATA}
    \cup (IF payload.SPRINT.none THEN {}
          ELSE PiecesOfDict(payload.SPRINT.path, PathStrings, PathLists))
    \cup DOMAIN payload.COLOR_MAP
EndTagStart == <<"<", "/">>

\* C11: in every string of the eight pieces of data that generate_html embeds in the
\* script block (agents, lifecycle, phases, value-prop cards, teams, detail data,
\* sprint, color map) no "<" is followed by "/"; the text between the strings is
\* JSON punctuation, so the serialized text has no "</".
C11_NoEndTagInPayload ==
    rpc = "done" => \A piece \in PayloadPieces : ~contains(piece, EndTagStart)

\* C11 witness: an Org Model whose agent description holds "</script>" was
\* serialized, and the description was written with "<\/".
C11_Witness ==
    /\ rpc = "done"
    /\ \E k \in 1..Len(config.agents) :
            contains(config.agents[k].description, <<"<","/","s","c","r","i","p","t",">">>)
    /\ \E piece \in PayloadPieces : contains(piece, <<"<", "\\", "/", "s", "c", "r", "i", "p", "t", ">">>)

\* the key an agent is placed by: its id with the hyphens read as spaces
DisplayKey(agent) == replace_char(agent_id(agent.name), "-", <<" ">>)

\* the place of a name or a skill in a preferred list, the list's length for the others
PlaceIn(names_list, item) ==
    IF in_list(item, names_list)
    THEN (CHOOSE i \in 1..Len(names_list) : names_list[i] = item) - 1
    ELSE Len(names_list)

\* a list whose items, read through key, are in preferred order: the preferred ones
\* first in the order of the list, the others after them in alphabetical order
InPreferredOrder(items, key, names_list) ==
    \A i, j \in 1..Len(items) :
        i < j => \/ PlaceIn(names_list, key[i]) < PlaceIn(names_list, key[j])
                 \/ /\ PlaceIn(names_list, key[i]) = PlaceIn(names_list, key[j])
                    /\ ~str_less(key[j], key[i])

\* the cards of the payload are in preferred order of their skills
CardsInPreferredOrder ==
    InPreferredOrder(vp_cards, [k \in 1..Len(vp_cards) |-> vp_cards[k].skill], PREFERRED_VP_ORDER)

\* C16 as stated: the agents of the payload whose lowercased names are in the
\* preferred list come first, in the order of the list, every other agent after them
\* in alphabetical order of its lowercased name; the cards likewise by their skills
C16_PreferredOrderByLowercasedName ==
    rpc = "done" =>
        /\ InPreferredOrder(PayloadAgents,
                [k \in 1..Len(PayloadAgents) |-> lower(PayloadAgents[k].name)],
                PREFERRED_AGENT_ORDER)
        /\ CardsInPreferredOrder

\* C16, amended: the agents are placed by their ids with hyphens read as spaces; the
\* ones whose key is in the preferred list come first, in the order of the list,
\* every other agent after them in alphabetical order of its key; the cards likewise
\* by their skills
C16_PreferredOrderByDisplayKey ==
    rpc = "done" =>
        /\ InPreferredOrder(PayloadAgents,
                [k \in 1..Len(PayloadAgents) |-> DisplayKey(PayloadAgents[k])],
                PREFERRED_AGENT_ORDER)
        /\ CardsInPreferredOrder

\* the agent "content-strategist" shown before an agent the Org Model lists first and
\* whose name is alphabetically before it, and a card of no preferred skill shown
\* after the preferred ones
C16_Witness ==
    /\ rpc = "done"
    /\ Len(PayloadAgents) = 2
    /\ PayloadAgents[1].name = config.agents[2].name
    /\ PayloadAgents[1].name = <<"c","o","n","t","e","n","t","-","s","t","r","a","t","e","g","i","s","t">>
    /\ str_less(lower(PayloadAgents[2].name), lower(PayloadAgents[1].name))
    /\ Len(vp_cards) >= 3
    /\ ~in_list(vp_cards[Len(vp_cards)].skill, PREFERRED_VP_ORDER)
    /\ in_list(vp_cards[1].skill, PREFERRED_VP_ORDER)

Kickoff == <<"k","i","c","k","o","f","f">>
DecisionMemory == <<"D","e","c","i","s","i","o","n"," ","m","e","m","o","r","y">>

\* the utility skills, the alternate paths and the skill names of the Org Model
UtilitySkillsOf == field(config, "utility_skills", <<>>)
AlternatePathsOf == field(config, "alternate_paths", <<>>)
SkillNamesOf == {field(config, "skills", <<>>)[k].name : k \in 1..Len(field(config, "skills", <<>>))}

\* the cards of a skill, and the decision memory cards
CardsOf(sk_name) == {k \in 1..Len(vp_cards) : vp_cards[k].skill = sk_name}
DecisionMemoryCards == {k \in 1..Len(vp_cards) : vp_cards[k].name = DecisionMemory}

\* one decision memory card, the orchestrator's, and no card without agents
OneDecisionMemoryCard ==
    /\ Cardinality(DecisionMemoryCards) = 1
    /\ \A k \in DecisionMemoryCards : vp_cards[k].agents = <<Orchestrator>>
    /\ \A k \in 1..Len(vp_cards) : Len(vp_cards[k].agents) > 0

\* one card per utility skill but kickoff and no other card; the card names the
\* orchestrator exactly when the utility skill has no agents, else the agents' ids
OneCardPerUtilitySkill ==
    /\ Len(vp_cards) = 1 + Cardinality({k \in 1..Len(UtilitySkillsOf) : UtilitySkillsOf[k].name # Kickoff})
    /\ CardsOf(Kickoff) = {}
    /\ \A k \in 1..Len(UtilitySkillsOf) :
            UtilitySkillsOf[k].name # Kickoff =>
                /\ Cardinality(CardsOf(UtilitySkillsOf[k].name)) = 1
                /\ \A c \in CardsOf(UtilitySkillsOf[k].name) :
                        /\ (vp_cards[c].agents = <<Orchestrator>>) <=>
                                (Len(field(UtilitySkillsOf[k], "agents", <<>>)) = 0)
                        /\ Len(field(UtilitySkillsOf[k], "agents", <<>>)) > 0 =>
                                vp_cards[c].agents =
                                    [i \in 1..Len(UtilitySkillsOf[k].agents) |->
                                        agent_id(UtilitySkillsOf[k].agents[i])]

\* the skills that get a card when the Org Model has no utility skills: the alternate
\* paths but sprint and kickoff, and story, scaffold and help where they are skills
FallbackCardSkills ==
    ({AlternatePathsOf[k].name : k \in 1..Len(AlternatePathsOf)} \ {<<"s","p","r","i","n","t">>, Kickoff})
    \cup ({<<"s","t","o","r","y">>, <<"s","c","a","f","f","o","l","d">>, <<"h","e","l","p">>} \cap SkillNamesOf)

\* C17 as stated: for every Org Model the cards are one decision memory card and one
\* card per utility skill, none for kickoff; every card has agents, the orchestrator
\* alone exactly when the utility skill has none
C17_OneCardPerUtilitySkillAlways ==
    rpc = "done" => OneDecisionMemoryCard /\ OneCardPerUtilitySkill

\* C17, amended: there is one decision memory card and no card without agents; an
\* Org Model with utility skills has one more card per utility skill but kickoff,
\* the orchestrator's exactly when the skill has no agents; an Org Model without
\* has one more card, the orchestrator's, per alternate path but sprint and kickoff
\* and per skill named story, scaffold or help
C17_OneCardPerUtilitySkillOrFallback ==
    rpc = "done" =>
        /\ OneDecisionMemoryCard
        /\ Len(UtilitySkillsOf) > 0 => OneCardPerUtilitySkill
        /\ Len(UtilitySkillsOf) = 0 =>
                /\ Len(vp_cards) = 1 + Cardinality(FallbackCardSkills)
                /\ \A sk_name \in FallbackCardSkills :
                        /\ Cardinality(CardsOf(sk_name)) = 1
                        /\ \A c \in CardsOf(sk_name) : vp_cards[c].agents = <<Orchestrator>>

\* an Org Model with the utility skill kickoff, one with agents and one without
C17_Witness ==
    /\ rpc = "done"
    /\ \E k \in 1..Len(UtilitySkillsOf) : UtilitySkillsOf[k].name = Kickoff
    /\ \E k \in 1..Len(UtilitySkillsOf) :
            UtilitySkillsOf[k].name # Kickoff /\ Len(UtilitySkillsOf[k].agents) > 1
    /\ \E k \in 1..Len(UtilitySkillsOf) :
            UtilitySkillsOf[k].name # Kickoff /\ Len(UtilitySkillsOf[k].agents) = 0
    /\ Len(vp_cards) = Len(UtilitySkillsOf)

\* the agents colored, the well-known ones and the others by name
ColoredAgents == config_get("agents")
WellKnownNames == {ColoredAgents[k].name : k \in {k \in 1..Len(ColoredAgents) : is_known(lower(ColoredAgents[k].name))}}
OtherNames == {ColoredAgents[k].name : k \in {k \in 1..Len(ColoredAgents) : ~is_known(lower(ColoredAgents[k].name))}}

\* every agent has a color
EveryAgentColored == \A k \in 1..Len(ColoredAgents) : ColoredAgents[k].name \in DOMAIN color_map

\* an agent with a well-known name has the color of that name
WellKnownKeepPreferred == \A name \in WellKnownNames : color_map[name] = known_color(lower(name))

\* no other agent shares its color with an agent of another name
OthersCollisionFree ==
    \A name \in OtherNames : \A other \in DOMAIN color_map :
        other # name => color_map[other] # color_map[name]

\* the palette has a color left for every other agent once the preferred colors in use
\* are set aside
PaletteSuffices ==
    Cardinality(OtherNames) + Cardinality({known_color(lower(name)) : name \in WellKnownNames})
        <= Len(AGENT_COLORS)

\* C25 as claimed: every agent receives a color, a well-known name its preferred color,
\* and an agent with another name never a color assigned to a different agent, for
\* agent lists of any length
C25_CollisionFreeForAnyLength ==
    rpc = "colored" => (EveryAgentColored /\ WellKnownKeepPreferred /\ OthersCollisionFree)

\* C25: every agent receives a color and a well-known name its preferred color, for
\* agent lists of any length; an agent with another name never receives a color
\* assigned to a different agent as long as the palette suffices, and shares one with
\* another agent when it does not
C25_CollisionFreeWithinPalette ==
    rpc = "colored" =>
        /\ EveryAgentColored
        /\ WellKnownKeepPreferred
        /\ PaletteSuffices <=> OthersCollisionFree

\* ten colors for ten agents: three preferred colors in use and seven other agents
C25_Witness ==
    /\ rpc = "colored"
    /\ Cardinality(WellKnownNames) >= 3
    /\ Cardinality(OtherNames) = 7
    /\ Cardinality(colors_of(color_map)) = Len(AGENT_COLORS)
    /\ OthersCollisionFree

\* the places, in the Org Model's agent list, of the agents whose operational skills
\* hold the skill
HolderPlaces(skill) ==
    {k \in 1..Len(config_get("agents")) :
        in_list(skill, field(config_get("agents")[k], "skills", <<>>))}

\* the names of the agents of a step, in the step's order
StepAgentNames(step) == [k \in 1..Len(step.agents) |-> step.agents[k].name]

\* C26: the agent list of every lifecycle step is exactly the agents whose operational
\* skill list holds the step's skill, each once and in the order of the Org Model's
\* agents; a step whose skill no agent has gets an empty list
C26_StepAgentsAreTheSkillHolders ==
    LifecycleBuilt =>
        \A i \in 1..Len(lifecycle_steps) :
            /\ Len(lifecycle_steps[i].agents) = Cardinality(HolderPlaces(lifecycle_steps[i].skill))
            /\ \A k \in 1..Len(lifecycle_steps[i].agents) :
                    StepAgentNames(lifecycle_steps[i])[k]
                        = config_get("agents")[Nth(HolderPlaces(lifecycle_steps[i].skill), k)].name

\* for QA before the Engineer and a lifecycle of eight steps: both are on build in that
\* order, the Engineer alone is on discover, nobody is on launch
C26_Witness ==
    /\ LifecycleBuilt
    /\ Len(lifecycle_steps) = 8
    /\ Len(config_get("agents")) = 2
    /\ StepAgentNames(lifecycle_steps[4]) = << <<"Q","A">>, <<"E","n","g","i","n","e","e","r">> >>
    /\ lifecycle_steps[4].skill = <<"b","u","i","l","d">>
    /\ StepAgentNames(lifecycle_steps[1]) = << <<"E","n","g","i","n","e","e","r">> >>
    /\ lifecycle_steps[8].agents = <<>>

\* C28: for every lifecycle length the phase indices lie in 0..3, start at 0, never
\* decrease and never increase by more than 1 from a step to the next, so that no phase
\* is skipped; from 4 steps on all four phases are used
C28_PhasesStartAtZeroAndSkipNone ==
    LifecycleBuilt =>
        /\ Len(PhasesOfSteps) = Len(config_get("lifecycle"))
        /\ \A i \in 1..Len(PhasesOfSteps) : PhasesOfSteps[i] \in 0..3
        /\ Len(PhasesOfSteps) >= 1 => PhasesOfSteps[1] = 0
        /\ \A i \in 1..(Len(PhasesOfSteps) - 1) :
                PhasesOfSteps[i + 1] - PhasesOfSteps[i] \in {0, 1}
        /\ Len(PhasesOfSteps) >= 4 => ItemsOf(PhasesOfSteps) = 0..3

\* seven steps, spread by the division: two steps in each of the first three phases
\* and one in the last
C28_Witness ==
    /\ LifecycleBuilt
    /\ PhasesOfSteps = <<0, 0, 1, 1, 2, 2, 3>>

(***************************************************************************)
(* Claims about build_from_plugin (SpecPlugin)                             *)
(***************************************************************************)
Done == ppc = "done"
ObserverName == <<"o","b","s","e","r","v","e","r">>
EngineerName == <<"E","n","g","i","n","e","e","r">>
\* a name that is "observer" in some letter casing
NamesObserver(agent_name) == lower(agent_name) = ObserverName
\* the files of the agents directory, and those whose canonical name is the observer's
FilesOfDir == IF plugin_dir.agents.exists THEN plugin_dir.agents.files ELSE {}
ObserverFiles == {i \in FilesOfDir : NamesObserver(agent_name_of(AgentFiles[i]))}
\* no name of the list is the observer's
NoObserverIn(names) == \A k \in 1..Len(names) : ~NamesObserver(names[k])

\* C1: when the agents directory holds a file whose canonical name is "observer" in
\* any letter casing, the Org Model that build_from_plugin returns has no agent entry
\* for it (the entries are those of the other files), and no team member list, no
\* utility-skill agent list and no agent list of a lifecycle step names it; the skill
\* and tool lists of the Org Model belong to the entries that remain.
C1_ObserverNeverInOrgModel ==
    (Done /\ ObserverFiles # {}) =>
        /\ Len(agents) = Cardinality(FilesOfDir \ ObserverFiles)
        /\ \A k \in 1..Len(agents) : ~NamesObserver(agents[k].name)
        /\ \A t \in 1..Len(teams) : NoObserverIn(teams[t].members)
        /\ \A u \in 1..Len(utility_skills) : NoObserverIn(utility_skills[u].agents)
        /\ \A i \in 1..Len(lifecycle) : NoObserverIn(agent_skills_map(agents, lifecycle[i]))

\* C1 witness: a directory with an observer file next to other agents, whose notes
\* name @observer in a team and whose skills mention @observer, was discovered into
\* an Org Model with agents, teams, a lifecycle and utility skills.
C1_Witness ==
    /\ Done
    /\ ObserverFiles # {}
    /\ contains(claude_content, <<"@","o","b","s","e","r","v","e","r">>)
    /\ \E s \in 1..Len(skill_bodies) : contains(skill_bodies[s][2], <<"@","o","b","s","e","r","v","e","r">>)
    /\ Len(agents) >= 2
    /\ Len(teams) >= 2
    /\ Len(lifecycle) >= 1
    /\ \E u \in 1..Len(utility_skills) : Len(utility_skills[u].agents) >= 1

\* the forward inference has run
ForwardDone ==
    ppc \in {"reverse", "mcps", "cli", "assign", "fallback", "cli_assign", "lifecycle",
             "teams", "alternate", "utility", "done"}
\* the skills that are not meta-skills and whose body mentions @engineer
MentioningEngineer ==
    {s \in 1..Len(skill_bodies) :
        /\ skill_bodies[s][1] \notin META_SKILLS
        /\ in_list(<<"e","n","g","i","n","e","e","r">>, findall_agent_refs(skill_bodies[s][2]))}
\* the number of times an item occurs in a list
CountIn(item, list) == Cardinality({i \in 1..Len(list) : list[i] = item})

\* C2: once the forward inference has run, and in the Org Model returned, the name of
\* every non-meta skill whose body mentions @engineer one or more times occurs exactly
\* once in the operational skill list of the discovered agent named "Engineer".
C2_MentionedSkillExactlyOnce ==
    ForwardDone =>
        \A k \in 1..Len(agents) : \A s \in MentioningEngineer :
            agents[k].name = EngineerName =>
                CountIn(skill_bodies[s][1], agents[k].skills) = 1

\* C2 witness: the Org Model was returned for a build skill that mentions @engineer
\* twice or more, and the Engineer's skills hold "build" once.
C2_Witness ==
    /\ Done
    /\ plugin_dir.skills.exists /\ plugin_dir.skills.mentions >= 2
    /\ \E s \in MentioningEngineer :
            /\ skill_bodies[s][1] = <<"b","u","i","l","d">>
            /\ Cardinality(Occurrences(<<"@","e","n","g","i","n","e","e","r">>, skill_bodies[s][2])) >= 2
    /\ \E k \in 1..Len(agents) :
            agents[k].name = EngineerName /\ CountIn(<<"b","u","i","l","d">>, agents[k].skills) = 1

\* the agents a team reference stands for: those whose lower-case display name is the
\* reference lowered with its hyphens as spaces
ReferredBy(ref) ==
    {k \in 1..Len(agents) : lower(agents[k].name) = replace_char(lower(ref), "-", <<" ">>)}
\* the references of a team line that stand for a discovered agent, in their order
KnownRefs(members_str) ==
    SelectSeq(findall_member_refs(members_str), LAMBDA ref : ReferredBy(ref) # {})
\* the display names of the agents the references stand for
DisplayNames(refs) == [i \in 1..Len(refs) |-> agents[SetMax(ReferredBy(refs[i]))].name]
\* the teams of the notes: the name of every "**Team Name**: @a + @b" line which
\* refers to a discovered agent, with the display names of the agents referred to
TeamsOfNotes ==
    LET matches == team_pattern(claude_content)
        referring == SelectSeq(matches, LAMBDA mt : Len(KnownRefs(mt.members_str)) > 0)
    IN  [i \in 1..Len(referring) |->
            [name |-> strip(referring[i].team_name),
             members |-> DisplayNames(KnownRefs(referring[i].members_str))]]
BuildAndQaLine == <<"*","*","B","u","i","l","d"," ","&"," ","Q","A","*","*",":"," ","@","e","n","g","i","n","e","e","r"," ","+"," ","@","q","a">>
BuildAndQaTeam == [name |-> <<"B","u","i","l","d"," ","&"," ","Q","A">>, members |-> << <<"E","n","g","i","n","e","e","r">>, <<"Q","A">> >>]
LaunchTeam == [name |-> <<"L","a","u","n","c","h">>, members |-> << <<"C","o","n","t","e","n","t"," ","S","t","r","a","t","e","g","i","s","t">> >>]
HasAgent(agent_name) == \E k \in 1..Len(agents) : agents[k].name = agent_name

\* C3: when the notes hold "**Team Name**: @a + @b + ..." lines that refer to
\* discovered agents, the teams of the Org Model are those lines in their order, each
\* with its name and, as members, the display names of the discovered agents it
\* refers to, in the order referred to; "**Build & QA**: @engineer + @qa" with the
\* Engineer and QA discovered yields the team "Build & QA" of <<"Engineer", "QA">>.
C3_TeamsOfNotesInReferenceOrder ==
    Done =>
        /\ Len(TeamsOfNotes) > 0 => teams = TeamsOfNotes
        /\ (/\ contains(claude_content, BuildAndQaLine)
            /\ HasAgent(<<"E","n","g","i","n","e","e","r">>)
            /\ HasAgent(<<"Q","A">>)) => in_list(BuildAndQaTeam, teams)

\* C3 witness: the notes with the Build & QA line were read with the Engineer and QA
\* discovered; the team is in the Org Model, followed by a team whose slug reference
\* @content-strategist became "Content Strategist".
C3_Witness ==
    /\ Done
    /\ contains(claude_content, BuildAndQaLine)
    /\ contains(claude_content, <<"@","c","o","n","t","e","n","t","-","s","t","r","a","t","e","g","i","s","t"," ","+"," ","@","o","b","s","e","r","v","e","r">>)
    /\ teams = <<BuildAndQaTeam, LaunchTeam>>

\* the inputs that are not there
Absent(input) == ~input.exists
\* the default step names that are discovered skills, in the default order
DefaultSteps == SelectSeq(core_skills, LAMBDA step : step \in skill_names_of(skills))
HeuristicTeamNames == { <<"D","i","s","c","o","v","e","r","y"," ","S","p","r","i","n","t">>, <<"B","u","i","l","d"," ","&"," ","Q","A">>, <<"S","h","i","p"," ","&"," ","L","a","u","n","c","h">> }
\* the teams are heuristic buckets of discovered agents
HeuristicBuckets ==
    /\ Len(agents) < 3 => teams = <<>>
    /\ \A t \in 1..Len(teams) :
            /\ teams[t].name \in HeuristicTeamNames
            /\ Len(teams[t].members) > 0
            /\ \A m \in 1..Len(teams[t].members) : HasAgent(teams[t].members[m])
\* what the claim and its amendment share: no error, and the values of the features
\* of the manifest, the agents, the skills and the tool integrations
AbsentInputsDefaults ==
    /\ ppc # "error"
    /\ Done =>
        /\ Absent(plugin_dir.manifest) => org_name = DefaultName
        /\ Absent(plugin_dir.agents) => agents = <<>>
        /\ Absent(plugin_dir.skills) => skills = <<>> /\ utility_skills = <<>>
        /\ Absent(plugin_dir.mcp) => mcps = <<>>
        /\ Absent(plugin_dir.notes) => cli_tools = <<>>

NamesMetaSkill(names) == \E k \in 1..Len(names) : names[k] \in META_SKILLS

\* the names of the utility_skills entries
UtilityNames == [k \in 1..Len(utility_skills) |-> utility_skills[k].name]

\* the names of the discovered skills
SkillNames == [k \in 1..Len(skills) |-> skills[k].name]

\* no agent has a meta-skill in its operational skills
NoMetaSkillOnAgents == \A k \in 1..Len(agents) : ~NamesMetaSkill(agents[k].skills)

\* every discovered meta-skill is one utility_skills entry
MetaSkillsAreUtilityEntries ==
    \A k \in 1..Len(skills) :
        skills[k].name \in META_SKILLS =>
            CountIn(skills[k].name, UtilityNames) = CountIn(skills[k].name, SkillNames)

\* C13 as stated: after the discovery no meta-skill is a lifecycle step or in an
\* agent's operational skills, and every discovered meta-skill is exactly one
\* utility_skills entry
C13_MetaSkillsOnlyUtilityEntries ==
    Done => /\ ~NamesMetaSkill(lifecycle)
            /\ NoMetaSkillOnAgents
            /\ \A k \in 1..Len(skills) :
                    skills[k].name \in META_SKILLS => CountIn(skills[k].name, UtilityNames) = 1

\* C13, amended: after the discovery no meta-skill is in an agent's operational
\* skills, nor in a lifecycle taken from the default steps; the lifecycle of a chain
\* in the notes holds what the chain names; every discovered meta-skill is one
\* utility_skills entry, and utility_skills holds nothing else
C13_MetaSkillsOffAgentsAndDefaultLifecycle ==
    Done => /\ NoMetaSkillOnAgents
            /\ lc_match(claude_content) = None => ~NamesMetaSkill(lifecycle)
            /\ MetaSkillsAreUtilityEntries
            /\ \A k \in 1..Len(UtilityNames) :
                    UtilityNames[k] \in META_SKILLS /\ in_list(UtilityNames[k], SkillNames)

\* the discovery of a meta-skill whose body refers to an agent that has skills, with
\* notes whose chain names a meta-skill
C13_Witness ==
    /\ Done
    /\ NamesMetaSkill(lifecycle)
    /\ \E k \in 1..Len(utility_skills) : Len(utility_skills[k].agents) > 0
    /\ \E k \in 1..Len(agents) : Len(agents[k].skills) > 0

\* the text of an agent's body from the "When Delegated To" heading to its end, None
\* without the heading
FromHeadingToEnd(agent_body) ==
    IF Occurrences(WhenDelegatedTo, agent_body) = {} THEN None
    ELSE substr(agent_body, SetMin(Occurrences(WhenDelegatedTo, agent_body)), Len(agent_body))

\* the discovered skills, meta-skills left out, that a text names as /name or in
\* backticks
NamedSkills(text) ==
    {sn \in skill_names_of(skills) \ META_SKILLS :
        \/ contains(text, <<"/">> \o sn)
        \/ contains(text, <<Backtick>> \o sn \o <<Backtick>>)}

\* C18: after build_from_plugin, every agent whose body has a "When Delegated To"
\* heading has among its operational skills every non-meta discovered skill named as
\* /name or in backticks anywhere between the heading and the end of the body, the
\* lines after the heading line included
C18_SkillsNamedAfterHeadingAreInferred ==
    Done =>
        \A k \in 1..Len(agents) :
            FromHeadingToEnd(agents[k].markdown) # None =>
                \A sn \in NamedSkills(FromHeadingToEnd(agents[k].markdown)) :
                    in_list(sn, agents[k].skills)

\* the first chain of the notes, None when they hold none
FirstChain == lc_match(claude_content)

\* a text ends with another
EndsWith(text, tail) ==
    Len(tail) <= Len(text) /\ substr(text, Len(text) - Len(tail) + 1, Len(text)) = tail

\* the lifecycle is the final path segments of the tokens of a chain, in their order
IsFinalSegmentsOf(chain) ==
    LET tokens == split_char(chain, Arrow)
    IN  /\ Len(lifecycle) = Len(tokens)
        /\ Len(tokens) >= 2
        /\ \A k \in 1..Len(tokens) :
                /\ EndsWith(strip(tokens[k]), <<":">> \o lifecycle[k])
                /\ Len(lifecycle[k]) > 0
                /\ \A i \in 1..Len(lifecycle[k]) : lifecycle[k][i] \in NameChars

\* the place of a step in the default list
CorePlace(step) == CHOOSE i \in 1..Len(core_skills) : core_skills[i] = step

\* the lifecycle is the default steps that are discovered skills, in the default order
IsDefaultStepsDiscovered ==
    /\ \A k \in 1..Len(lifecycle) :
            in_list(lifecycle[k], core_skills) /\ lifecycle[k] \in skill_names_of(skills)
    /\ \A k \in 1..Len(core_skills) :
            core_skills[k] \in skill_names_of(skills) => in_list(core_skills[k], lifecycle)
    /\ \A i, j \in 1..Len(lifecycle) : i < j => CorePlace(lifecycle[i]) < CorePlace(lifecycle[j])

\* C19: with a chain /ns:step -> /ns:step ... of two or more tokens in the notes, the
\* lifecycle is the final path segments of the first chain in their order; without,
\* it is the default list discover, spec, design, build, review, ship restricted to
\* the discovered skills
C19_LifecycleOfChainOrDefault ==
    Done => IF FirstChain # None THEN IsFinalSegmentsOf(FirstChain)
            ELSE IsDefaultStepsDiscovered

\* notes with a chain and no skills directory: the steps of the chain are the
\* lifecycle though none is a discovered skill
C19_Witness ==
    /\ Done
    /\ FirstChain # None
    /\ skills = <<>>
    /\ lifecycle = << <<"d","i","s","c","o","v","e","r">>, <<"b","u","i","l","d">>, <<"s","h","i","p">> >>

\* no chain in the notes and skills discovered: the default steps that are skills
DefaultLifecycleReached ==
    /\ Done
    /\ plugin_dir.notes.exists
    /\ FirstChain = None
    /\ lifecycle = << <<"d","i","s","c","o","v","e","r">>, <<"b","u","i","l","d">>, <<"s","h","i","p">> >>

\* a "**Team Name**: @agent + ..." pattern matches somewhere in the notes
PatternMatches == Len(team_pattern(claude_content)) > 0

\* the names of the agents that have one of the skills, in the order of the agents
BucketMembers(skill_set) ==
    LET having == SelectSeq(agents, LAMBDA agent : \E k \in 1..Len(agent.skills) :
                                                        agent.skills[k] \in skill_set)
    IN  [k \in 1..Len(having) |-> having[k].name]

\* the three heuristic buckets, each only with a member, and none under three agents
ExpectedBuckets ==
    IF Len(agents) < 3 THEN <<>>
    ELSE SelectSeq(
            << [name |-> <<"D","i","s","c","o","v","e","r","y"," ","S","p","r","i","n","t">>,
                members |-> BucketMembers({ <<"d","i","s","c","o","v","e","r">> })],
               [name |-> <<"B","u","i","l","d"," ","&"," ","Q","A">>,
                members |-> BucketMembers({ <<"b","u","i","l","d">>, <<"d","e","s","i","g","n">>, <<"r","e","v","i","e","w">> })],
               [name |-> <<"S","h","i","p"," ","&"," ","L","a","u","n","c","h">>,
                members |-> BucketMembers({ <<"s","h","i","p">>, <<"r","e","l","e","a","s","e","-","n","o","t","e","s">> })] >>,
            LAMBDA bucket : Len(bucket.members) > 0)

\* C20 as stated: the heuristic buckets are produced only when no team pattern matches
\* anywhere in the notes and there are at least 3 agents, each bucket only with a
\* member; whenever a pattern matches, the teams are those of the notes and no bucket
C20_BucketsOnlyWithoutPattern ==
    Done => IF PatternMatches THEN teams = TeamsOfNotes ELSE teams = ExpectedBuckets

\* C20, amended: the heuristic buckets are produced only when the notes gave no team
\* (no pattern matches, or no member of a matching pattern is an agent) and there are
\* at least 3 agents, each bucket only with a member; whenever the notes give a team,
\* the teams are those of the notes and no bucket
C20_BucketsOnlyWithoutNamedTeam ==
    Done => IF Len(TeamsOfNotes) > 0 THEN teams = TeamsOfNotes ELSE teams = ExpectedBuckets

\* notes whose only team pattern names no agent, three agents, and a bucket produced
C20_Witness ==
    /\ Done
    /\ PatternMatches
    /\ Len(TeamsOfNotes) = 0
    /\ Len(agents) >= 3
    /\ Len(teams) >= 2
    /\ teams = ExpectedBuckets

\* the lines of the Tool Access section of the notes
HintLines ==
    IF claude_content = <<>> THEN <<>>
    ELSE IF tool_section(claude_content) = None THEN <<>>
    ELSE split_char(tool_section(claude_content), "\n")

\* the line names the tool at place i of the manifest and no tool before it
Selects(line, i) ==
    /\ contains(lower(line), lower(mcps[i].name))
    /\ \A j \in 1..(i - 1) : ~contains(lower(line), lower(mcps[j].name))

\* the tools selected by the bullet lines that hold the agent's name
HintedTools(agent) ==
    {mcps[i].name : i \in {i \in 1..Len(mcps) :
        \E n \in 1..Len(HintLines) :
            /\ is_bullet(HintLines[n])
            /\ Selects(HintLines[n], i)
            /\ contains(lower(HintLines[n]), lower(agent.name))}}

\* after the pass over the section every agent holds its hinted tools, each once
AssignedAsHinted ==
    ppc = "fallback" =>
        \A k \in 1..Len(agents) :
            /\ ItemsOf(agents[k].mcps) = HintedTools(agents[k])
            /\ NoDuplicates(agents[k].mcps)

\* the fallback step leaves an agent that holds a tool as it is
FallbackOnlyForToolless ==
    ppc = "fallback" =>
        /\ Len(agents') = Len(agents)
        /\ \A k \in 1..Len(agents) : Len(agents[k].mcps) > 0 => agents'[k] = agents[k]

\* C21: for each bullet line of the Tool Access section the first tool of the manifest
\* whose lower-case display name occurs in the line is the one selected; it is added,
\* at most once, to every agent whose lower-case name occurs in the line and to no
\* other agent; the role-based fallback changes only agents left without a tool
C21_FirstToolOfLineToNamedAgents == []AssignedAsHinted /\ [][FallbackOnlyForToolless]_vars

\* after the fallback step: QA holds the tool of its own line and then the first tool
\* of the line naming two, Engineer, named on two lines, holds that tool once, and
\* Designer, a design role, holds its hinted tool once
C21_Witness ==
    /\ ppc = "cli_assign"
    /\ Len(mcps) = 2
    /\ \E d, e, q \in 1..Len(agents) :
        /\ agents[d].name = <<"D","e","s","i","g","n","e","r">> /\ agents[d].mcps = <<mcps[1].name>>
        /\ agents[e].name = EngineerName /\ agents[e].mcps = <<mcps[1].name>>
        /\ agents[q].name = <<"Q","A">> /\ agents[q].mcps = <<mcps[2].name, mcps[1].name>>

\* a mention stands for an agent: lowered, it is the agent's lower-case name as it is,
\* with hyphens for its spaces, or without its spaces
MentionOf(ref, agent) ==
    lower(ref) \in {lower(agent.name), replace_char(lower(agent.name), " ", <<"-">>),
                    replace_char(lower(agent.name), " ", <<>>)}

\* the mentions of a skill's body
MentionsIn(skill_name) ==
    LET at == {s \in 1..Len(skill_bodies) : skill_bodies[s][1] = skill_name}
    IN  UNION {ItemsOf(findall_agent_refs(skill_bodies[s][2])) : s \in at}

\* a mention of the body that stands for no agent
Unresolved(ref) == \A k \in 1..Len(agents) : ~MentionOf(ref, agents[k])

\* after the forward step an agent holds a skill only for a mention that stands for it:
\* a skill whose mentions all stand for no agent is on no agent
OnlyResolvedMentionsCount ==
    ppc = "reverse" =>
        \A k \in 1..Len(agents) : \A s \in ItemsOf(agents[k].skills) :
            \E ref \in MentionsIn(s) : MentionOf(ref, agents[k])

\* the team patterns of the notes none of whose references stands for an agent
UnresolvedPatterns ==
    {mt \in ItemsOf(team_pattern(claude_content)) : Len(KnownRefs(mt.members_str)) = 0}
ResolvedPatterns ==
    {mt \in ItemsOf(team_pattern(claude_content)) : Len(KnownRefs(mt.members_str)) > 0}

\* the teams hold agents only, a pattern's team as many as it has references that stand
\* for an agent, and a pattern without such a reference is not a team
OnlyResolvedMembersCount ==
    Done =>
        /\ \A t \in ItemsOf(teams) : \A member \in ItemsOf(t.members) : HasAgent(member)
        /\ \A mt \in ResolvedPatterns : \A t \in ItemsOf(teams) :
                t.name = strip(mt.team_name) => Len(t.members) = Len(KnownRefs(mt.members_str))
        /\ \A mt \in UnresolvedPatterns : \A t \in ItemsOf(teams) : t.name # strip(mt.team_name)

\* neither step raises
NoRaiseOnReference == ppc \in {"forward", "teams"} => ppc' # "error"

\* C23: a mention in a skill body, or a reference in a team pattern, that matches no
\* known agent is dropped without effect: it changes no agent's operational skill list
\* and adds no member to a team, a pattern none of whose members resolves records no
\* team, and no error is raised
C23_UnresolvedReferencesDropped ==
    /\ []OnlyResolvedMentionsCount
    /\ []OnlyResolvedMembersCount
    /\ [][NoRaiseOnReference]_vars

\* the Org Model was returned for a discover skill that mentions @researcher and
\* @engineer-x, which no agent is, and for notes whose Launch team refers to @ghost and
\* whose Ghosts team to nobody known: discover is on QA alone, Launch has one member
C23_Witness ==
    /\ Done
    /\ \E ref \in MentionsIn(<<"d","i","s","c","o","v","e","r">>) : Unresolved(ref)
    /\ Len(agents) >= 2
    /\ \A k \in 1..Len(agents) :
            in_list(<<"d","i","s","c","o","v","e","r">>, agents[k].skills) <=> agents[k].name = <<"Q","A">>
    /\ HasAgent(<<"Q","A">>)
    /\ UnresolvedPatterns # {}
    /\ in_list(LaunchTeam, teams)

\* the agents another run over the same directory has after its reverse inference,
\* when its set of skill names is iterated in the given order
AgentsOfRun(order) == reverse_inference(agents, delegated_sections(agents), order)

\* the step of this run and that of every other run end with the same agents
SameAgentsInEveryRun ==
    ppc = "reverse" =>
        \A order \in orders_of(skill_names_of(skills)) : agents' = AgentsOfRun(order)

\* C27: two runs of build_from_plugin over identical directory contents return
\* identical Org Models, the order of every agent's operational skill list included:
\* the order does not depend on the order in which the set of skill names is iterated
C27_RunsReturnIdenticalOrgModels == [][SameAgentsInEveryRun]_vars

\* the names of the entries of a list of the Org Model
NamesOf(entries) == {entries[i].name : i \in 1..Len(entries)}

\* C29: in the Org Model returned, every agent's operational skill list has no
\* duplicates and holds only names of discovered skills, its tool-integration list
\* only display names of discovered tool integrations, and its CLI-tool list only
\* names of discovered CLI tools
C29_AgentListsNameDiscoveredEntries ==
    Done =>
        \A k \in 1..Len(agents) :
            /\ NoDuplicates(agents[k].skills)
            /\ ItemsOf(agents[k].skills) \subseteq NamesOf(skills)
            /\ ItemsOf(agents[k].mcps) \subseteq NamesOf(mcps)
            /\ ItemsOf(agents[k].cli_tools) \subseteq NamesOf(cli_tools)

\* the Org Model was returned with QA holding two skills, both tool integrations and a
\* CLI tool, beside an agent that holds none
C29_Witness ==
    /\ Done
    /\ \E q, other \in 1..Len(agents) :
        /\ agents[q].name = <<"Q","A">>
        /\ Len(agents[q].skills) >= 2
        /\ Len(agents[q].mcps) = 2
        /\ Len(agents[q].cli_tools) >= 1
        /\ agents[other].mcps = <<>> /\ agents[other].cli_tools = <<>>

(***************************************************************************)
(* Claims about main (SpecMain)                                            *)
(***************************************************************************)
\* main got past the rendering: the output path is about to be opened, or was
Rendered == mpc \in {"open", "write", "print", "done"}

\* the run reads an explicit document
ExplicitDocument == args.config.given /\ args.config.exists /\ args.config.parses

\* C12: in explicit document mode a structurally invalid document (wrong shape, a
\* missing top-level agents/skills/teams/lifecycle key, an entry without name) makes
\* the run abort: it never gets past the rendering, and the output path is untouched
C12_InvalidDocumentAborts ==
    (ExplicitDocument /\ ~structurally_valid(args.config.document)) =>
        (~Rendered /\ output_file = PreviousFile)

\* the steps of main in their order
StepRank(pc) ==
    IF pc = "assemble" THEN 1 ELSE IF pc = "render" THEN 2 ELSE IF pc = "open" THEN 3
    ELSE IF pc = "write" THEN 4 ELSE IF pc = "print" THEN 5 ELSE 6

\* the output path is opened only with the Org Model assembled and rendered, is opened
\* and written at most once, and is as it was when the run aborted before the open
AllOrNothing ==
    /\ output_file.opens > 0 =>
            /\ StepRank(mpc) > StepRank("open")
            /\ ~generate_html_raises(main_config)
            /\ html_content = generate_html(main_config.value)
    /\ output_file.opens <= 1
    /\ output_file.writes <= output_file.opens
    /\ mpc = "aborted" => output_file = PreviousFile
    /\ output_file.state = "written" <=> mpc \in {"print", "done"}

\* no step of main goes back to an earlier one
LinearPass == mpc' # mpc => StepRank(mpc') > StepRank(mpc)

\* C14: a run is one linear pass with an all-or-nothing write: the output file is
\* opened only after assembly and rendering succeeded, written at most once, and
\* never opened, truncated or modified when assembly or rendering failed
C14_SinglePassAllOrNothingWrite == []AllOrNothing /\ [][LinearPass]_vars

\* a run whose rendering failed, with an output path that could have been written
C14_Witness ==
    /\ mpc = "aborted"
    /\ ExplicitDocument
    /\ args.output.writable
    /\ generate_html_raises(args.config.document)
    /\ output_file = PreviousFile

\* the run builds its Org Model from the flat arguments
FlatArguments == ~args.config.given /\ ~args.plugin_dir.given

\* the items of a comma-separated input, blank ones removed
items_of(text) == split_commas(text)

\* the first LifecycleLimit items of a list
first_items(l) == [k \in 1..(IF Len(l) < LifecycleLimit THEN Len(l) ELSE LifecycleLimit) |-> l[k]]

\* C15: in flat-argument mode every agent has the same skill list and the same tool
\* list, the items of --skills and --mcps, and the lifecycle is the first 7 skills
\* in input order (all of them when there are fewer)
C15_FlatModeSameSkillsAndFirstSeven ==
    (FlatArguments /\ mpc # "assemble") =>
        /\ \A k \in 1..Len(main_config.value.agents) :
                /\ main_config.value.agents[k].skills = items_of(args.cli.skills)
                /\ main_config.value.agents[k].mcps = items_of(args.cli.mcps)
        /\ main_config.value.lifecycle = first_items(items_of(args.cli.skills))

\* a flat-argument run with more than seven skills, two agents and a tool
C15_Witness ==
    /\ FlatArguments
    /\ mpc = "done"
    /\ Len(items_of(args.cli.skills)) > LifecycleLimit
    /\ Len(main_config.value.lifecycle) = LifecycleLimit
    /\ Len(main_config.value.agents) >= 2
    /\ Len(items_of(args.cli.mcps)) >= 1

(***************************************************************************)
(* Specifications: each runs one part of the program on its bounded inputs *)
(* and leaves the variables of the other parts idle                        *)
(***************************************************************************)
\* shorten_description and fix_name_casing on every bounded text
InitText ==
    /\ text_in \in TextInputs
    /\ max_len \in 0..MaxBudget
    /\ short1 = None
    /\ short2 = None
    /\ cased = None
    /\ tpc = "start"
    /\ content = None
    /\ meta = EmptyDict
    /\ body = None
    /\ raw_lines = <<>>
    /\ line_no = 0
    /\ current_key = None
    /\ current_list = NoList
    /\ fpc = "idle"
    /\ config = None
    /\ color_map = EmptyDict
    /\ lifecycle_steps = <<>>
    /\ sprint_alt = NoPath
    /\ agent_data = <<>>
    /\ vp_cards = <<>>
    /\ team_data = <<>>
    /\ detail_data = EmptyDict
    /\ payload = None
    /\ rpc = "idle"
    /\ plugin_dir = None
    /\ org_name = None
    /\ claude_content = <<>>
    /\ agents = <<>>
    /\ skills = <<>>
    /\ skill_bodies = <<>>
    /\ mcps = <<>>
    /\ cli_tools = <<>>
    /\ lifecycle = <<>>
    /\ teams = <<>>
    /\ alternate_paths = <<>>
    /\ utility_skills = <<>>
    /\ ppc = "idle"
    /\ args = None
    /\ main_config = None
    /\ html_content = None
    /\ output_file = PreviousFile
    /\ mpc = "idle"

SpecText == InitText /\ [][TextNext]_vars

\* parse_frontmatter on every bounded document
InitFrontmatter ==
    /\ content \in FmInputs
    /\ meta = EmptyDict
    /\ body = content
    /\ raw_lines = <<>>
    /\ line_no = 0
    /\ current_key = None
    /\ current_list = NoList
    /\ fpc = "match"
    /\ text_in = None
    /\ max_len = 0
    /\ short1 = None
    /\ short2 = None
    /\ cased = None
    /\ tpc = "idle"
    /\ config = None
    /\ color_map = EmptyDict
    /\ lifecycle_steps = <<>>
    /\ sprint_alt = NoPath
    /\ agent_data = <<>>
    /\ vp_cards = <<>>
    /\ team_data = <<>>
    /\ detail_data = EmptyDict
    /\ payload = None
    /\ rpc = "idle"
    /\ plugin_dir = None
    /\ org_name = None
    /\ claude_content = <<>>
    /\ agents = <<>>
    /\ skills = <<>>
    /\ skill_bodies = <<>>
    /\ mcps = <<>>
    /\ cli_tools = <<>>
    /\ lifecycle = <<>>
    /\ teams = <<>>
    /\ alternate_paths = <<>>
    /\ utility_skills = <<>>
    /\ ppc = "idle"
    /\ args = None
    /\ main_config = None
    /\ html_content = None
    /\ output_file = PreviousFile
    /\ mpc = "idle"

SpecFrontmatter == InitFrontmatter /\ [][FmNext]_vars

\* generate_html on every bounded Org Model
InitRender ==
    /\ config \in RenderConfigs
    /\ color_map = EmptyDict
    /\ lifecycle_steps = <<>>
    /\ sprint_alt = NoPath
    /\ agent_data = <<>>
    /\ vp_cards = <<>>
    /\ team_data = <<>>
    /\ detail_data = EmptyDict
    /\ payload = None
    /\ rpc = "start"
    /\ text_in = None
    /\ max_len = 0
    /\ short1 = None
    /\ short2 = None
    /\ cased = None
    /\ tpc = "idle"
    /\ content = None
    /\ meta = EmptyDict
    /\ body = None
    /\ raw_lines = <<>>
    /\ line_no = 0
    /\ current_key = None
    /\ current_list = NoList
    /\ fpc = "idle"
    /\ plugin_dir = None
    /\ org_name = None
    /\ claude_content = <<>>
    /\ agents = <<>>
    /\ skills = <<>>
    /\ skill_bodies = <<>>
    /\ mcps = <<>>
    /\ cli_tools = <<>>
    /\ lifecycle = <<>>
    /\ teams = <<>>
    /\ alternate_paths = <<>>
    /\ utility_skills = <<>>
    /\ ppc = "idle"
    /\ args = None
    /\ main_config = None
    /\ html_content = None
    /\ output_file = PreviousFile
    /\ mpc = "idle"

SpecRender == InitRender /\ [][RenderNext]_vars

\* build_from_plugin on every bounded plugin directory
InitColors ==
    /\ config \in {[agents |-> l] : l \in ColorAgentLists}
    /\ color_map = EmptyDict
    /\ lifecycle_steps = <<>>
    /\ sprint_alt = NoPath
    /\ agent_data = <<>>
    /\ vp_cards = <<>>
    /\ team_data = <<>>
    /\ detail_data = EmptyDict
    /\ payload = None
    /\ rpc = "colors"
    /\ text_in = None
    /\ max_len = 0
    /\ short1 = None
    /\ short2 = None
    /\ cased = None
    /\ tpc = "idle"
    /\ content = None
    /\ meta = EmptyDict
    /\ body = None
    /\ raw_lines = <<>>
    /\ line_no = 0
    /\ current_key = None
    /\ current_list = NoList
    /\ fpc = "idle"
    /\ plugin_dir = None
    /\ org_name = None
    /\ claude_content = <<>>
    /\ agents = <<>>
    /\ skills = <<>>
    /\ skill_bodies = <<>>
    /\ mcps = <<>>
    /\ cli_tools = <<>>
    /\ lifecycle = <<>>
    /\ teams = <<>>
    /\ alternate_paths = <<>>
    /\ utility_skills = <<>>
    /\ ppc = "idle"
    /\ args = None
    /\ main_config = None
    /\ html_content = None
    /\ output_file = PreviousFile
    /\ mpc = "idle"

SpecColors == InitColors /\ [][ColorsNext]_vars

InitPlugin ==
    /\ plugin_dir \in PluginDirs
    /\ org_name = DefaultName
    /\ claude_content = <<>>
    /\ agents = <<>>
    /\ skills = <<>>
    /\ skill_bodies = <<>>
    /\ mcps = <<>>
    /\ cli_tools = <<>>
    /\ lifecycle = <<>>
    /\ teams = <<>>
    /\ alternate_paths = <<>>
    /\ utility_skills = <<>>
    /\ ppc = "manifest"
    /\ text_in = None
    /\ max_len = 0
    /\ short1 = None
    /\ short2 = None
    /\ cased = None
    /\ tpc = "idle"
    /\ content = None
    /\ meta = EmptyDict
    /\ body = None
    /\ raw_lines = <<>>
    /\ line_no = 0
    /\ current_key = None
    /\ current_list = NoList
    /\ fpc = "idle"
    /\ config = None
    /\ color_map = EmptyDict
    /\ lifecycle_steps = <<>>
    /\ sprint_alt = NoPath
    /\ agent_data = <<>>
    /\ vp_cards = <<>>
    /\ team_data = <<>>
    /\ detail_data = EmptyDict
    /\ payload = None
    /\ rpc = "idle"
    /\ args = None
    /\ main_config = None
    /\ html_content = None
    /\ output_file = PreviousFile
    /\ mpc = "idle"

SpecPlugin == InitPlugin /\ [][PluginNext]_vars


\* main on every bounded argument list
InitMain ==
    /\ args \in ArgLists
    /\ main_config = None
    /\ html_content = None
    /\ output_file = PreviousFile
    /\ mpc = "assemble"
    /\ text_in = None
    /\ max_len = 0
    /\ short1 = None
    /\ short2 = None
    /\ cased = None
    /\ tpc = "idle"
    /\ content = None
    /\ meta = EmptyDict
    /\ body = None
    /\ raw_lines = <<>>
    /\ line_no = 0
    /\ current_key = None
    /\ current_list = NoList
    /\ fpc = "idle"
    /\ config = None
    /\ color_map = EmptyDict
    /\ lifecycle_steps = <<>>
    /\ sprint_alt = NoPath
    /\ agent_data = <<>>
    /\ vp_cards = <<>>
    /\ team_data = <<>>
    /\ detail_data = EmptyDict
    /\ payload = None
    /\ rpc = "idle"
    /\ plugin_dir = None
    /\ org_name = None
    /\ claude_content = <<>>
    /\ agents = <<>>
    /\ skills = <<>>
    /\ skill_bodies = <<>>
    /\ mcps = <<>>
    /\ cli_tools = <<>>
    /\ lifecycle = <<>>
    /\ teams = <<>>
    /\ alternate_paths = <<>>
    /\ utility_skills = <<>>
    /\ ppc = "idle"

SpecMain == InitMain /\ [][MainNext]_vars

====
